---- MODULE Spec2Model ----
(***************************************************************************)
(* Message decision pipeline of jaiminho-notificacoes: tenant resolution   *)
(* and isolation gate, webhook ingestion, deterministic urgency rules,     *)
(* conservative escalation and orchestration.                              *)
(*                                                                         *)
(* Strings of the program that are inspected character by character        *)
(* (phone numbers, JIDs) are sequences of one-character strings; the       *)
(* server part of a JID is one element.                                    *)
(* Confidences are integers in units of 1/ConfScale.                       *)
(***************************************************************************)
EXTENDS Integers, Sequences, FiniteSets, TLC

VARIABLES
    store,      \* tenant store: instance_id -> WAPIInstance record
    cache,      \* TenantResolver._cache: instance_id -> TenantContext
    obs,        \* observation of the last resolver/gate call: inputs and result
    ucall,      \* a call of the UrgencyAgent: its inputs and, once made, its result
    stats,      \* UrgencyRuleEngine._stats
    robs,       \* observation of the last UrgencyRuleEngine.evaluate call
    received,   \* number of webhooks process_webhook has handled
    hobs,       \* observation of the last process_webhook call
    queue,      \* the processing queue: forwarded NormalizedMessages, in order
    pobs,       \* observation of the last MessageProcessingOrchestrator.process call
    rejected,   \* the webhooks (by number) the tenant gate rejected
    evaluated,  \* the webhooks (by number) whose message the rule engine evaluated
    inflight,   \* the calls in progress: each one's position and local values
    logger      \* the module's TenantContextLogger: _tenant_context and last record

tenantVars == <<store, cache, obs>>

urgencyVars == <<ucall>>

ruleVars == <<stats, robs>>

ingestVars == <<received, hobs, queue, pobs, rejected, evaluated>>

concurrentVars == <<inflight, logger>>

vars == <<store, cache, obs, ucall, stats, robs,
          received, hobs, queue, pobs, rejected, evaluated, inflight, logger>>

-----------------------------------------------------------------------------
(* Bounds *)

\* evaluate calls between two reset_stats
MaxEvaluations == 3

\* webhooks handled in one behaviour
MaxWebhooks == 2

\* instances of the fleet beyond the cache threshold
SpareInstances == 2

-----------------------------------------------------------------------------
(* Python values *)

NoKey == "<none>"          \* api_key is None
Absent == "<absent>"       \* dict has no such key
Null == "<null>"           \* JSON null / None value
NoPhone == <<"<none>">>    \* sender_phone is None

\* Python truthiness of an optional string value
Truthy(v) == v \notin {NoKey, Absent, Null, ""}

Digits == {"0", "1", "2", "3", "4", "5", "6", "7", "8", "9"}

IsDigit(ch) == ch \in Digits

\* TenantResolver._normalize_phone
NormalizePhone(phone) ==
    IF phone = NoPhone \/ phone = <<>> THEN <<>>
    ELSE SelectSeq(phone, IsDigit)

\* TenantResolver._hash_api_key: sha256 is modelled as an injective tagging
HashApiKey(api_key) == <<"sha256", api_key>>

NoHash == <<>>             \* empty stored hash

-----------------------------------------------------------------------------
(* Tenant store *)

Statuses == {"active", "suspended", "disabled"}

NoRecord == [none |-> TRUE]
NoCtx == [none |-> TRUE]

\* The fixed part of the store records; i2 shares its phone digits with i1
\* but belongs to another user, and has no stored credential hash.
StoreInstances == {"i1", "i2"}

UnknownInstance == "i9"

InstanceIds == StoreInstances \cup {UnknownInstance}

\* "15550100015" and "26660100026"
PhoneA == <<"1", "5", "5", "5", "0", "1", "0", "0", "0", "1", "5">>

PhoneB == <<"2", "6", "6", "6", "0", "1", "0", "0", "0", "2", "6">>

RecordOf(i) ==
    CASE i = "i1" -> [tenant_id |-> "t1", user_id |-> "u1", wapi_instance_id |-> "i1",
                      phone_number |-> <<"+">> \o PhoneA,
                      api_key_hash |-> HashApiKey("k1")]
      [] i = "i2" -> [tenant_id |-> "t2", user_id |-> "u2", wapi_instance_id |-> "i2",
                      phone_number |-> <<"1", "-">> \o Tail(PhoneA),
                      api_key_hash |-> NoHash]

WithStatus(rec, s) ==
    [tenant_id |-> rec.tenant_id, user_id |-> rec.user_id,
     wapi_instance_id |-> rec.wapi_instance_id, phone_number |-> rec.phone_number,
     api_key_hash |-> rec.api_key_hash, status |-> s]

\* WAPIInstanceRepository.get_by_instance_id; fault is the outcome of the
\* DynamoDB query: "ok", "client_error" (caught, None) or "raise".
GetByInstanceId(st, instance_id, fault) ==
    IF fault = "client_error" THEN NoRecord
    ELSE IF instance_id \in DOMAIN st THEN st[instance_id]
    ELSE NoRecord

\* WAPIInstanceRepository.get_owner_by_phone: the set of records the Limit=1
\* query on the phone fingerprint may return (NoRecord when there is none
\* or when the query fails with a ClientError).
GetOwnerByPhone(st, phone, fault) ==
    LET normalized == NormalizePhone(phone)
        hits == {st[i] : i \in {j \in DOMAIN st : NormalizePhone(st[j].phone_number) = normalized}}
    IN  IF normalized = <<>> \/ fault = "client_error" \/ hits = {} THEN {NoRecord}
        ELSE hits

-----------------------------------------------------------------------------
(* TenantContext *)

\* TenantContext.__post_init__: all of tenant_id, user_id, instance_id required
ContextValid(rec) ==
    rec.tenant_id # "" /\ rec.user_id # "" /\ rec.wapi_instance_id # ""

MakeContext(rec, status) ==
    [tenant_id |-> rec.tenant_id, user_id |-> rec.user_id,
     instance_id |-> rec.wapi_instance_id, phone_number |-> rec.phone_number,
     status |-> status]

\* TenantContext.is_active
IsActive(ctx) == ctx.status = "active"

-----------------------------------------------------------------------------
(* TenantResolver *)

CacheThreshold == 1000

CacheSize(c) == Cardinality({k \in DOMAIN c : c[k] # NoCtx})

EmptyCache == [k \in InstanceIds |-> NoCtx]

\* TenantResolver._get_from_cache
GetFromCache(c, instance_id) == c[instance_id]

\* dict.clear
Cleared(c) == [k \in DOMAIN c |-> NoCtx]

\* a resolver that keeps one context for all instances
AddToCacheOneSlot(c, instance_id, context) == [k \in DOMAIN c |-> context]

\* TenantResolver._add_to_cache
AddToCache(c, instance_id, context) ==
    LET base == IF CacheSize(c) > CacheThreshold THEN Cleared(c) ELSE c
    IN  [base EXCEPT ![instance_id] = context]

\* The credential check of resolve_from_instance: TRUE when the call is
\* rejected for its api_key.
ApiKeyRejected(api_key, stored_hash) ==
    Truthy(api_key) /\ (stored_hash = NoHash \/ HashApiKey(api_key) # stored_hash)

\* The status check of resolve_from_instance
StatusResolvable(status) == status \in {"active", "suspended"}

\* TenantResolver.resolve_from_instance: the returned context and the cache
\* after the call.
ResolveFromInstance(c, st, instance_id, api_key, fault) ==
    LET cached == GetFromCache(c, instance_id)
        rec == GetByInstanceId(st, instance_id, fault)
    IN  IF cached # NoCtx /\ IsActive(cached)
            THEN [ctx |-> cached, cache |-> c, from_cache |-> TRUE]
        ELSE IF fault = "raise"
            THEN [ctx |-> NoCtx, cache |-> c, from_cache |-> FALSE]
        ELSE IF rec = NoRecord
            THEN [ctx |-> NoCtx, cache |-> c, from_cache |-> FALSE]
        ELSE IF ApiKeyRejected(api_key, rec.api_key_hash)
            THEN [ctx |-> NoCtx, cache |-> c, from_cache |-> FALSE]
        ELSE IF ~StatusResolvable(rec.status)
            THEN [ctx |-> NoCtx, cache |-> c, from_cache |-> FALSE]
        ELSE IF ~ContextValid(rec)
            THEN [ctx |-> NoCtx, cache |-> c, from_cache |-> FALSE]
        ELSE [ctx |-> MakeContext(rec, rec.status),
              cache |-> AddToCache(c, instance_id, MakeContext(rec, rec.status)),
              from_cache |-> FALSE]

\* TenantResolver.validate_phone_ownership; owner is the record returned by
\* get_owner_by_phone for the normalized sender.
ValidatePhoneOwnership(sender_phone, ctx, owner) ==
    LET sanitized_sender == NormalizePhone(sender_phone)
        sanitized_expected == NormalizePhone(ctx.phone_number)
    IN  IF sanitized_sender = <<>> \/ sanitized_expected = <<>> THEN FALSE
        ELSE IF sanitized_sender # sanitized_expected THEN FALSE
        ELSE IF owner # NoRecord /\ owner.user_id # ctx.user_id THEN FALSE
        ELSE TRUE

\* Raw payloads: a dict is modelled by the values of the two keys the gate
\* reads; NoPayload is payload=None.
NoPayload == [none |-> TRUE]

MakePayload(tenant, user) == [tenant_id |-> tenant, user_id |-> user]

HasKey(v) == v # Absent

\* TenantResolver.detect_cross_tenant_attempt
DetectCrossTenantAttempt(payload, verified_tenant_id) ==
    LET payload_tenant == payload.tenant_id
        payload_user == payload.user_id
    IN  IF Truthy(payload_tenant) /\ payload_tenant # verified_tenant_id THEN TRUE
        ELSE IF Truthy(payload_user) THEN TRUE
        ELSE FALSE

\* TenantIsolationMiddleware.validate_and_resolve; owner is the outcome of
\* the phone-owner lookup (a record, NoRecord, or OwnerRaises when the lookup
\* raises, which the middleware does not catch).
OwnerRaises == [raises |-> TRUE]

\* A call meets at most one store fault: at the instance lookup or at the
\* phone-owner lookup, a ClientError (caught by the repository) or another
\* exception.
Faults == {"ok", "instance_client_error", "instance_raise",
           "owner_client_error", "owner_raise"}

InstanceFault(fault) ==
    CASE fault = "instance_client_error" -> "client_error"
      [] fault = "instance_raise" -> "raise"
      [] OTHER -> "ok"

OwnerFault(fault) ==
    CASE fault = "owner_client_error" -> "client_error"
      [] fault = "owner_raise" -> "raise"
      [] OTHER -> "ok"

GateResult(ctx, errors, c, raised) ==
    [ctx |-> ctx, errors |-> errors, cache |-> c, raised |-> raised]

PhoneLookupReached(sender_phone, ctx) ==
    /\ NormalizePhone(sender_phone) # <<>>
    /\ NormalizePhone(sender_phone) = NormalizePhone(ctx.phone_number)

SenderSupplied(sender_phone) == sender_phone # NoPhone /\ sender_phone # <<>>

ValidateAndResolve(c, st, instance_id, api_key, sender_phone, payload, fault, owner) ==
    LET r == ResolveFromInstance(c, st, instance_id, api_key, InstanceFault(fault))
        tenant_context == r.ctx
    IN  IF tenant_context = NoCtx
            THEN GateResult(NoCtx, {"instance_id"}, r.cache, FALSE)
        ELSE IF ~IsActive(tenant_context)
            THEN GateResult(NoCtx, {"status"}, r.cache, FALSE)
        ELSE IF SenderSupplied(sender_phone)
                /\ PhoneLookupReached(sender_phone, tenant_context)
                /\ owner = OwnerRaises
            THEN GateResult(NoCtx, {}, r.cache, TRUE)
        ELSE IF SenderSupplied(sender_phone)
                /\ ~ValidatePhoneOwnership(sender_phone, tenant_context, owner)
            THEN GateResult(NoCtx, {"phone_ownership"}, r.cache, FALSE)
        ELSE IF payload # NoPayload
                /\ DetectCrossTenantAttempt(payload, tenant_context.tenant_id)
            THEN GateResult(NoCtx, {"payload_forbidden_fields"}, r.cache, FALSE)
        ELSE GateResult(tenant_context, {}, r.cache, FALSE)

\* The store lookups a call of resolve_from_instance performs, each with
\* its outcome: none on a cache hit, else the instance lookup
ResolveLookups(c, instance_id, fault) ==
    LET cached == GetFromCache(c, instance_id)
    IN  IF cached # NoCtx /\ IsActive(cached) THEN <<>>
        ELSE <<[lookup |-> "instance", outcome |-> fault]>>

\* The store lookups a call of validate_and_resolve performs: those of the
\* resolver, then the phone-owner lookup when validate_phone_ownership
\* reaches it
GateLookups(c, st, instance_id, api_key, sender_phone, fault) ==
    LET r == ResolveFromInstance(c, st, instance_id, api_key, InstanceFault(fault))
    IN  ResolveLookups(c, instance_id, InstanceFault(fault))
        \o (IF /\ r.ctx # NoCtx
                /\ IsActive(r.ctx)
                /\ SenderSupplied(sender_phone)
                /\ PhoneLookupReached(sender_phone, r.ctx)
             THEN <<[lookup |-> "owner", outcome |-> OwnerFault(fault)]>>
             ELSE <<>>)

-----------------------------------------------------------------------------
(* Confidences *)

\* A confidence c of the program is the integer c * ConfScale
ConfScale == 100000

Min(a, b) == IF a < b THEN a ELSE b

Max(a, b) == IF a > b THEN a ELSE b

\* confidence * factor, factor given in hundredths (0.8 is 80)
Attenuate(confidence, hundredths) == (confidence * hundredths) \div 100

-----------------------------------------------------------------------------
(* Message texts *)

\* What KeywordMatcher.match_keywords and match_patterns return on each text
\* (keyword matches first, then pattern matches), with the length of the
\* stripped text, the number of urgent keywords the orchestrator's
\* synchronous agent counts and the category its classification picks.
TextIds == {"empty", "oi", "oi_tudo_bem", "otp", "promo", "pix", "senha_banco",
            "oferta_pagamento", "urgente_agora", "reuniao", "promo_boleto",
            "alerta_promo", "ola_padded", "chego_agora"}

TextInfo(t) ==
    CASE t = "empty" ->
            \* ""
            [len |-> 0, security |-> <<>>, financial |-> <<>>, marketing |-> <<>>,
             urgent_kw |-> 0, category |-> "geral"]
      [] t = "oi" ->
            \* "Oi"
            [len |-> 2, security |-> <<>>, financial |-> <<>>, marketing |-> <<>>,
             urgent_kw |-> 0, category |-> "geral"]
      [] t = "oi_tudo_bem" ->
            \* "Oi, tudo bem?"
            [len |-> 13, security |-> <<>>, financial |-> <<>>, marketing |-> <<>>,
             urgent_kw |-> 0, category |-> "geral"]
      [] t = "otp" ->
            \* "Seu código de verificação é 123456, expira em 5 minutos"
            [len |-> 55,
             security |-> <<"código", "expira", "verificação", "123456", "123456",
                            "código de", "código de", "expira em">>,
             financial |-> <<>>, marketing |-> <<>>,
             urgent_kw |-> 1, category |-> "geral"]
      [] t = "promo" ->
            \* "Promoção! Até 50% OFF, não perca!"
            [len |-> 33, security |-> <<>>, financial |-> <<>>,
             marketing |-> <<"não perca", "promoção", "50% OFF", "Até 50%", "não perca">>,
             urgent_kw |-> 0, category |-> "geral"]
      [] t = "pix" ->
            \* "PIX recebido R$ 100"
            [len |-> 19, security |-> <<>>,
             financial |-> <<"$", "pix", "r$", "$ 100", "PIX">>, marketing |-> <<>>,
             urgent_kw |-> 0, category |-> "financeiro"]
      [] t = "senha_banco" ->
            \* "Sua senha do banco"
            [len |-> 18, security |-> <<"senha", "senha do">>,
             financial |-> <<"banco">>, marketing |-> <<>>,
             urgent_kw |-> 0, category |-> "financeiro"]
      [] t = "oferta_pagamento" ->
            \* "Veja a oferta de pagamento"
            [len |-> 26, security |-> <<>>, financial |-> <<"pagamento">>,
             marketing |-> <<"oferta">>,
             urgent_kw |-> 0, category |-> "financeiro"]
      [] t = "urgente_agora" ->
            \* "Urgente! Precisamos conversar agora!"
            [len |-> 36, security |-> <<"urgent", "urgente">>, financial |-> <<>>,
             marketing |-> <<>>,
             urgent_kw |-> 3, category |-> "geral"]
      [] t = "reuniao" ->
            \* "Reunião amanhã às 10h no escritório"
            [len |-> 35, security |-> <<>>, financial |-> <<>>, marketing |-> <<>>,
             urgent_kw |-> 0, category |-> "trabalho"]
      [] t = "promo_boleto" ->
            \* "Promoção: desconto no boleto"
            [len |-> 28, security |-> <<>>, financial |-> <<"boleto">>,
             marketing |-> <<"desconto", "promoção">>,
             urgent_kw |-> 0, category |-> "financeiro"]
      [] t = "alerta_promo" ->
            \* "Alerta: promoção com desconto"
            [len |-> 29, security |-> <<"alert", "alerta">>, financial |-> <<>>,
             marketing |-> <<"desconto", "promoção">>,
             urgent_kw |-> 0, category |-> "automacao"]
      [] t = "ola_padded" ->
            \* "   Olá, bom   ": 14 characters, 8 after strip()
            [len |-> 8, security |-> <<>>, financial |-> <<>>, marketing |-> <<>>,
             urgent_kw |-> 0, category |-> "geral"]
      [] t = "chego_agora" ->
            \* "Chego agora em casa"
            [len |-> 19, security |-> <<>>, financial |-> <<>>, marketing |-> <<>>,
             urgent_kw |-> 1, category |-> "geral"]

\* The fields of a NormalizedMessage the pipeline reads
MakeMessage(message_id, tenant_id, user_id, sender_phone, instance_id, is_group, text) ==
    [message_id |-> message_id, tenant_id |-> tenant_id, user_id |-> user_id,
     sender_phone |-> sender_phone, instance_id |-> instance_id,
     is_group |-> is_group, text |-> text]

-----------------------------------------------------------------------------
(* UrgencyRuleEngine *)

Take(seq, n) == SubSeq(seq, 1, Min(n, Len(seq)))

RuleMatch(decision, rule_name, confidence, matched_keywords, reasoning) ==
    [decision |-> decision, rule_name |-> rule_name, confidence |-> confidence,
     matched_keywords |-> matched_keywords, reasoning |-> reasoning]

\* f"... keywords/patterns detected: {len(all_matches)} matches"
DetectedReasoning(kind, all_matches) == <<kind, "detected", Len(all_matches)>>

NoMatch == [none |-> TRUE]

\* _check_security giving way to financial evidence
CheckSecurityUnlessFinancial(text) ==
    LET all_matches == TextInfo(text).security
    IN  IF TextInfo(text).len = 0 \/ all_matches = <<>>
           \/ TextInfo(text).financial # <<>> THEN NoMatch
        ELSE RuleMatch("urgent", "security_content",
                       Min(99000, 80000 + Len(all_matches) * 5000),
                       Take(all_matches, 5),
                       DetectedReasoning("security", all_matches))

\* UrgencyRuleEngine._check_security
CheckSecurity(text) ==
    LET all_matches == TextInfo(text).security
    IN  IF TextInfo(text).len = 0 \/ all_matches = <<>> THEN NoMatch
        ELSE RuleMatch("urgent", "security_content",
                       Min(99000, 80000 + Len(all_matches) * 5000),
                       Take(all_matches, 5),
                       DetectedReasoning("security", all_matches))

\* UrgencyRuleEngine._check_financial
CheckFinancial(text) ==
    LET all_matches == TextInfo(text).financial
    IN  IF TextInfo(text).len = 0 \/ all_matches = <<>> THEN NoMatch
        ELSE RuleMatch("urgent", "financial_content",
                       Min(99000, 85000 + Len(all_matches) * 5000),
                       Take(all_matches, 5),
                       DetectedReasoning("financial", all_matches))

\* UrgencyRuleEngine._check_marketing
CheckMarketing(text) ==
    LET all_matches == TextInfo(text).marketing
    IN  IF TextInfo(text).len = 0 \/ Len(all_matches) < 2 THEN NoMatch
        ELSE RuleMatch("not_urgent", "marketing_content",
                       Min(95000, 75000 + Len(all_matches) * 5000),
                       Take(all_matches, 5),
                       DetectedReasoning("marketing", all_matches))

\* evaluate with the content rules tried before the group rule
EvaluateMatchContentFirst(message) ==
    IF CheckSecurity(message.text) # NoMatch THEN CheckSecurity(message.text)
    ELSE IF CheckFinancial(message.text) # NoMatch THEN CheckFinancial(message.text)
    ELSE IF message.is_group
        THEN RuleMatch("not_urgent", "group_message", 95000, <<>>, <<"group">>)
    ELSE IF CheckMarketing(message.text) # NoMatch THEN CheckMarketing(message.text)
    ELSE IF TextInfo(message.text).len < 10
        THEN RuleMatch("not_urgent", "empty_or_short", 70000, <<>>, <<"short">>)
    ELSE RuleMatch("undecided", "no_match", 0, <<>>, <<"no_match">>)

\* The RuleMatch returned by UrgencyRuleEngine.evaluate
EvaluateMatch(message) ==
    IF message.is_group
        THEN RuleMatch("not_urgent", "group_message", 95000, <<>>, <<"group">>)
    ELSE IF CheckSecurity(message.text) # NoMatch THEN CheckSecurity(message.text)
    ELSE IF CheckFinancial(message.text) # NoMatch THEN CheckFinancial(message.text)
    ELSE IF CheckMarketing(message.text) # NoMatch THEN CheckMarketing(message.text)
    ELSE IF TextInfo(message.text).len < 10
        THEN RuleMatch("not_urgent", "empty_or_short", 70000, <<>>, <<"short">>)
    ELSE RuleMatch("undecided", "no_match", 0, <<>>, <<"no_match">>)

RuleNames == {"group_message", "security_content", "financial_content",
              "marketing_content", "empty_or_short", "no_match"}

\* UrgencyRuleEngine.__init__ / reset_stats
EmptyStats ==
    [total_evaluations |-> 0, urgent_decisions |-> 0, not_urgent_decisions |-> 0,
     undecided |-> 0, rules_triggered |-> [r \in RuleNames |-> 0]]

\* a _create_match that counts the decision and not the rule
CreateMatchStatsDecisionOnly(st, match) ==
    [st EXCEPT
        !.urgent_decisions = IF match.decision = "urgent" THEN @ + 1 ELSE @,
        !.not_urgent_decisions = IF match.decision = "not_urgent" THEN @ + 1 ELSE @,
        !.undecided = IF match.decision = "undecided" THEN @ + 1 ELSE @]

\* UrgencyRuleEngine._create_match: the counters after a match is created
CreateMatchStats(st, match) ==
    [st EXCEPT
        !.urgent_decisions = IF match.decision = "urgent" THEN @ + 1 ELSE @,
        !.not_urgent_decisions = IF match.decision = "not_urgent" THEN @ + 1 ELSE @,
        !.undecided = IF match.decision = "undecided" THEN @ + 1 ELSE @,
        !.rules_triggered[match.rule_name] = @ + 1]

\* The counters after UrgencyRuleEngine.evaluate
EvaluateStats(st, message) ==
    CreateMatchStats([st EXCEPT !.total_evaluations = @ + 1], EvaluateMatch(message))

\* evaluate with a confidence that grows with the evaluations counted so far
EngineEvaluateCounting(st, message) ==
    [match |-> [EvaluateMatch(message) EXCEPT
                   !.confidence = Min(ConfScale, @ + st.total_evaluations)],
     stats |-> EvaluateStats(st, message)]

\* UrgencyRuleEngine.evaluate on an engine whose counters are st: the
\* RuleMatch returned and the counters left behind
EngineEvaluate(st, message) ==
    [match |-> EvaluateMatch(message), stats |-> EvaluateStats(st, message)]

-----------------------------------------------------------------------------
(* UrgencyAgent *)

CONFIDENCE_THRESHOLD_URGENT == 75000

CONFIDENCE_THRESHOLD_KNOWN_SENDER == 65000

FirstContactThreshold == 85000

LowRateThreshold == 85000

GroupThreshold == 90000

UrgencyResult(urgent, reason, confidence) ==
    [urgent |-> urgent, reason |-> reason, confidence |-> confidence]

NoHistory == [none |-> TRUE]

MakeHistory(total, urgent_count, not_urgent_count) ==
    [total_messages |-> total, urgent_count |-> urgent_count,
     not_urgent_count |-> not_urgent_count]

\* HistoricalInterruptionData.urgency_rate < 0.1
UrgencyRateBelowTenth(h) ==
    LET total == h.urgent_count + h.not_urgent_count
    IN  IF total > 0 THEN h.urgent_count * 10 < total ELSE TRUE

\* UrgencyAgent._fetch_historical_data
FetchHistoricalData == MakeHistory(0, 0, 0)

\* Reasons are modelled by the branch that wrote them, in front of the
\* classifier's own reason.
PrefixReason(prefix, reason) == <<prefix>> \o reason

\* Rule 1 without its test of result.urgent
LowConfidenceRuleAnyResult(result, historical_data) ==
    /\ result.confidence < CONFIDENCE_THRESHOLD_URGENT
    /\ IF historical_data # NoHistory /\ historical_data.total_messages >= 5
          THEN result.confidence < CONFIDENCE_THRESHOLD_KNOWN_SENDER
          ELSE TRUE

\* Rule 1 of _apply_conservative_logic: the confidence is too low (0.75, or
\* 0.65 for a sender with at least 5 messages)
LowConfidenceRule(result, historical_data) ==
    /\ result.urgent
    /\ result.confidence < CONFIDENCE_THRESHOLD_URGENT
    /\ IF historical_data # NoHistory /\ historical_data.total_messages >= 5
          THEN result.confidence < CONFIDENCE_THRESHOLD_KNOWN_SENDER
          ELSE TRUE

\* Rule 2 with the general threshold in place of the first-contact one
FirstContactRuleGeneralThreshold(result, historical_data) ==
    /\ result.urgent
    /\ historical_data # NoHistory
    /\ historical_data.total_messages = 0
    /\ result.confidence < CONFIDENCE_THRESHOLD_URGENT

\* Rule 2: first contact from an unknown sender
FirstContactRule(result, historical_data) ==
    /\ result.urgent
    /\ historical_data # NoHistory
    /\ historical_data.total_messages = 0
    /\ result.confidence < FirstContactThreshold

\* Rule 3: sender with a low historical urgency rate
LowRateRule(result, historical_data) ==
    /\ result.urgent
    /\ historical_data # NoHistory
    /\ historical_data.total_messages >= 10
    /\ UrgencyRateBelowTenth(historical_data)
    /\ result.confidence < LowRateThreshold

\* Rule 4: group messages
GroupRule(result, message) ==
    /\ result.urgent
    /\ message.is_group
    /\ result.confidence < GroupThreshold

\* UrgencyAgent._apply_conservative_logic
ApplyConservativeLogic(result, historical_data, message) ==
    IF LowConfidenceRule(result, historical_data)
        THEN UrgencyResult(FALSE, PrefixReason("low_confidence", result.reason),
                           result.confidence)
    ELSE IF FirstContactRule(result, historical_data)
        THEN UrgencyResult(FALSE, PrefixReason("first_contact", result.reason),
                           Attenuate(result.confidence, 80))
    ELSE IF LowRateRule(result, historical_data)
        THEN UrgencyResult(FALSE, PrefixReason("low_urgency_rate", result.reason),
                           Attenuate(result.confidence, 85))
    ELSE IF GroupRule(result, message)
        THEN UrgencyResult(FALSE, PrefixReason("group_message", result.reason),
                           Attenuate(result.confidence, 70))
    ELSE result

\* Classifier responses. A response is a text that is not JSON, a JSON value
\* that is not an object, or a JSON object; of an object the model keeps the
\* "urgent" and "confidence" members, each by its JSON type.
JAbsent == [t |-> "absent"]
JNull == [t |-> "null"]
JBool(b) == [t |-> "bool", v |-> b]
JNum(n) == [t |-> "num", v |-> n]
\* a JSON string: numeric is the number float() reads from it, when there is one
JStr(empty, numeric) == [t |-> "str", empty |-> empty, numeric |-> numeric]

NotNumeric == -1

LlmReason == <<"llm">>

MakeResponse(shape, urgent, confidence, reason) ==
    [shape |-> shape, urgent |-> urgent, confidence |-> confidence, reason |-> reason]

\* bool(data.get("urgent", False))
PyBool(j) ==
    CASE j.t = "absent" -> FALSE
      [] j.t = "null" -> FALSE
      [] j.t = "bool" -> j.v
      [] j.t = "num" -> j.v # 0
      [] j.t = "str" -> ~j.empty

\* float(data.get("confidence", 0.5)): "ok" with the value, or the exception
PyFloat(j) ==
    CASE j.t = "absent" -> [ok |-> TRUE, v |-> 50000, exc |-> ""]
      [] j.t = "null" -> [ok |-> FALSE, v |-> 0, exc |-> "TypeError"]
      [] j.t = "bool" -> [ok |-> TRUE, v |-> IF j.v THEN ConfScale ELSE 0, exc |-> ""]
      [] j.t = "num" -> [ok |-> TRUE, v |-> j.v, exc |-> ""]
      [] j.t = "str" -> IF j.numeric = NotNumeric
                          THEN [ok |-> FALSE, v |-> 0, exc |-> "ValueError"]
                          ELSE [ok |-> TRUE, v |-> j.numeric, exc |-> ""]

Returned(result) == [raised |-> FALSE, result |-> result]

Raised(exc) == [raised |-> TRUE, exc |-> exc]

\* UrgencyAgent._parse_urgency_response
ParseUrgencyResponse(response) ==
    IF response.shape = "not_json"
        THEN Returned(UrgencyResult(FALSE, <<"erro_processar_resposta">>, 30000))
    ELSE IF response.shape = "non_object"
        THEN Raised("AttributeError")
    ELSE IF ~PyFloat(response.confidence).ok
        THEN IF PyFloat(response.confidence).exc = "ValueError"
                THEN Returned(UrgencyResult(FALSE, <<"erro_processar_resposta">>, 30000))
                ELSE Raised(PyFloat(response.confidence).exc)
    ELSE Returned(UrgencyResult(
            PyBool(response.urgent),
            IF response.reason = <<>> THEN <<"sem_justificativa">> ELSE response.reason,
            Max(0, Min(ConfScale, PyFloat(response.confidence).v))))

\* What the classifier call does: the API raises inside _call_llm, the call
\* as a whole raises, or a response text comes back.
LlmApiRaises == [kind |-> "api_raises"]
LlmCallRaises == [kind |-> "call_raises"]
LlmResponds(response) == [kind |-> "response", response |-> response]

\* UrgencyAgent._call_llm
CallLlm(api_key_set, llm) ==
    IF llm.kind = "call_raises" THEN Raised("Exception")
    ELSE IF ~api_key_set
        THEN Returned(MakeResponse("object", JBool(FALSE), JNum(40000),
                                   <<"api_nao_configurada">>))
    ELSE IF llm.kind = "api_raises"
        THEN Returned(MakeResponse("object", JBool(FALSE), JNum(30000),
                                   <<"erro_chamada_api">>))
    ELSE Returned(llm.response)

\* UrgencyAgent.run
Run(message, historical_data, api_key_set, llm) ==
    LET history == IF historical_data = NoHistory THEN FetchHistoricalData
                   ELSE historical_data
        called == CallLlm(api_key_set, llm)
        parsed == ParseUrgencyResponse(called.result)
    IN  IF TextInfo(message.text).len < 5
            THEN UrgencyResult(FALSE, <<"vazia_ou_curta">>, 85000)
        ELSE IF message.is_group
            THEN UrgencyResult(FALSE, <<"grupo">>, 90000)
        ELSE IF called.raised
            THEN UrgencyResult(FALSE, <<"erro_na_analise">>, 50000)
        ELSE IF parsed.raised
            THEN UrgencyResult(FALSE, <<"erro_na_analise">>, 50000)
        ELSE ApplyConservativeLogic(parsed.result, history, message)

-----------------------------------------------------------------------------
(* ClassificationAgent *)

\* a JSON string member, by the text it holds
JText(v) == [t |-> "text", v |-> v]

ClassificationResult(category, summary, routing, reasoning, confidence) ==
    [category |-> category, summary |-> summary, routing |-> routing,
     reasoning |-> reasoning, confidence |-> confidence]

\* ClassificationAgent.CATEGORIES
CATEGORIES == {"trabalho", "familia", "entregas", "financeiro", "saude", "eventos",
               "geral", "automacao", "outros"}

\* Of a JSON object the model keeps the members _parse_classification_response
\* reads, each by its JSON type.
MakeClassification(shape, category, summary, routing, reasoning, confidence) ==
    [shape |-> shape, category |-> category, summary |-> summary,
     routing |-> routing, reasoning |-> reasoning, confidence |-> confidence]

\* str.lower() on the routing texts of the inputs
Lower(text) == IF text = "IMMEDIATE" THEN "immediate" ELSE text

valid_routing == {"immediate", "digest", "spam"}

\* ClassificationAgent._parse_classification_response
ParseClassificationResponse(response) ==
    IF response.shape = "not_json" THEN Raised("ValueError")
    ELSE IF response.shape = "non_object" THEN Raised("AttributeError")
    ELSE IF response.summary.t \notin {"absent", "text"} THEN Raised("TypeError")
    ELSE IF response.routing.t \notin {"absent", "text"} THEN Raised("AttributeError")
    ELSE IF ~PyFloat(response.confidence).ok
        THEN Raised(PyFloat(response.confidence).exc)
    ELSE Returned(ClassificationResult(
            IF response.category.t = "text" /\ response.category.v \in CATEGORIES
                THEN response.category.v ELSE "outros",
            IF response.summary.t = "absent" THEN "sem_resumo" ELSE response.summary.v,
            IF response.routing.t = "absent" THEN "digest"
            ELSE IF Lower(response.routing.v) \in valid_routing
                THEN Lower(response.routing.v)
            ELSE "digest",
            IF response.reasoning.t = "absent" THEN JText(<<"sem_justificativa">>)
            ELSE response.reasoning,
            Max(0, Min(ConfScale, PyFloat(response.confidence).v))))

\* the note replaces the reasoning
AppendNoteOverwrites(result, routing, note) ==
    IF result.reasoning.t # "text" THEN Raised("TypeError")
    ELSE Returned([result EXCEPT !.routing = routing,
                                 !.reasoning = JText(<<note>>)])

\* result.reasoning += note
AppendNote(result, routing, note) ==
    IF result.reasoning.t # "text" THEN Raised("TypeError")
    ELSE Returned([result EXCEPT !.routing = routing,
                                 !.reasoning = JText(@.v \o <<note>>)])

\* _apply_routing_logic without its third rule
ApplyRoutingLogicTwoRules(result, urgency_decision, urgency_confidence) ==
    IF urgency_decision = "urgent" /\ urgency_confidence > 75000
        THEN IF result.routing # "immediate"
                THEN AppendNote(result, "immediate", "alta_urgencia_detectada")
                ELSE Returned(result)
    ELSE IF urgency_confidence < 50000
        THEN IF result.routing = "immediate"
                THEN AppendNote(result, "digest", "baixa_confianca")
                ELSE Returned(result)
    ELSE Returned(result)

\* ClassificationAgent._apply_routing_logic
ApplyRoutingLogic(result, urgency_decision, urgency_confidence) ==
    IF urgency_decision = "urgent" /\ urgency_confidence > 75000
        THEN IF result.routing # "immediate"
                THEN AppendNote(result, "immediate", "alta_urgencia_detectada")
                ELSE Returned(result)
    ELSE IF urgency_confidence < 50000
        THEN IF result.routing = "immediate"
                THEN AppendNote(result, "digest", "baixa_confianca")
                ELSE Returned(result)
    ELSE IF urgency_decision = "not_urgent" /\ urgency_confidence > 70000
        THEN IF result.routing = "immediate"
                THEN AppendNote(result, "digest", "mensagem_nao_urgente")
                ELSE Returned(result)
    ELSE Returned(result)

\* a fallback that always routes to the digest
CreateFallbackResultDigest(urgency_decision) ==
    ClassificationResult("outros", "erro_no_processamento", "digest",
                         JText(<<"fallback_devido_a_erro">>), 50000)

\* ClassificationAgent._create_fallback_result
CreateFallbackResult(urgency_decision) ==
    ClassificationResult("outros", "erro_no_processamento",
                         IF urgency_decision = "urgent" THEN "immediate" ELSE "digest",
                         JText(<<"fallback_devido_a_erro">>), 50000)

\* ClassificationAgent._call_llm: without an API key the response text is
\* assembled from the prompt (not JSON when the extracted content spans
\* lines, as it does for an empty text); with one, what the classifier gives
ClassificationCallLlm(message, api_key_set, llm) ==
    IF llm.kind = "call_raises" THEN Raised("Exception")
    ELSE IF ~api_key_set
        THEN IF TextInfo(message.text).len = 0
                THEN Returned(MakeClassification("not_json", JAbsent, JAbsent, JAbsent,
                                                 JAbsent, JAbsent))
                ELSE Returned(MakeClassification(
                        "object", JText(TextInfo(message.text).category),
                        JText("resumo"), JText("digest"),
                        JText(<<"api_nao_configurada">>), JNum(70000)))
    ELSE Returned(llm.response)

\* ClassificationAgent._validate_tenant_isolation raises
TenantIsolationMissing(message) ==
    ~Truthy(message.tenant_id) \/ ~Truthy(message.user_id)

\* ClassificationAgent.run: the result returned, or the exception raised by
\* the tenant isolation check, which is made outside the try block
ClassificationRun(message, urgency_decision, urgency_confidence, api_key_set, llm) ==
    LET called == ClassificationCallLlm(message, api_key_set, llm)
        parsed == ParseClassificationResponse(called.result)
        routed == ApplyRoutingLogic(parsed.result, urgency_decision,
                                    urgency_confidence)
    IN  IF TenantIsolationMissing(message) THEN Raised("ValueError")
        ELSE IF called.raised THEN Returned(CreateFallbackResult(urgency_decision))
        ELSE IF parsed.raised THEN Returned(CreateFallbackResult(urgency_decision))
        ELSE IF routed.raised THEN Returned(CreateFallbackResult(urgency_decision))
        ELSE routed

\* Summaries are modelled by their length in characters.
\* len(s[:stop]) for a string s of n characters: a negative stop counts from
\* the end of the string
SliceLen(n, stop) == IF stop >= 0 THEN Min(n, stop) ELSE Max(0, n + stop)

\* len("...")
EllipsisLen == 3

SummaryCap == 150

SummaryKept == 147

\* _parse_classification_response: the summary of the result, for a summary
\* of n characters in the response
ParsedSummaryLen(n) ==
    IF n > SummaryCap THEN SliceLen(n, SummaryKept) + EllipsisLen ELSE n

\* len("Erro no processamento - mensagem preservada para digest"), the summary
\* of _create_fallback_result
FallbackSummaryLen == 55

-----------------------------------------------------------------------------
(* Webhook events *)


NoEvent == [none |-> TRUE]

NoMessage == [none |-> TRUE]

\* A Lambda event: the kind of its body and, of a body that conforms to the
\* webhook schema, the fields the handler and the normalizer read, with the
\* identifiers a sender may add to the payload (tenant_id, user_id).
\* participant is NoPhone when the key has none; timestamp 0 is an absent
\* messageTimestamp.
MakeEvent(instance, event, apikey, remoteJid, participant, text, timestamp, tenant_id, user_id) ==
    [body |-> "valid", instance |-> instance, event |-> event, apikey |-> apikey,
     remoteJid |-> remoteJid, participant |-> participant, id |-> "m1",
     text |-> text, timestamp |-> timestamp,
     tenant_id |-> tenant_id, user_id |-> user_id]

\* A Lambda event whose body is empty, is not JSON, is JSON but not an object,
\* or is an object that does not conform to the schema
BrokenEvent(body) == [body |-> body]

-----------------------------------------------------------------------------
(* MessageNormalizer *)

\* jid.split('@')[0]
BeforeAt(jid) ==
    LET ats == {k \in 1..Len(jid) : jid[k] = "@"}
    IN  IF ats = {} THEN jid
        ELSE SubSeq(jid, 1, (CHOOSE k \in ats : \A j \in ats : k <= j) - 1)

\* MessageNormalizer._extract_sender_phone
ExtractSenderPhone(remote_jid, participant) ==
    LET jid == IF participant # NoPhone /\ participant # <<>> THEN participant
               ELSE remote_jid
    IN  SelectSeq(BeforeAt(jid), IsDigit)

\* key.remoteJid.endswith('@g.us')
IsGroupJid(remote_jid) ==
    /\ Len(remote_jid) >= 2
    /\ remote_jid[Len(remote_jid) - 1] = "@"
    /\ remote_jid[Len(remote_jid)] = "g.us"

\* The field constraints of NormalizedMessage: non-empty ids, a sender_phone
\* of 10 to 15 digits, a timestamp that is not negative
NormalizedMessageValid(message_id, tenant_id, user_id, sender_phone, timestamp) ==
    /\ message_id # "" /\ tenant_id # "" /\ user_id # ""
    /\ Len(sender_phone) >= 10 /\ Len(sender_phone) <= 15
    /\ \A k \in 1..Len(sender_phone) : IsDigit(sender_phone[k])
    /\ timestamp >= 0

\* MessageNormalizer.should_process_event
ShouldProcessEvent(event_type) == event_type = "messages.upsert"

\* normalize with tenant_id and user_id exchanged at the construction of
\* the NormalizedMessage
NormalizeSwappedIds(event, tenant_context) ==
    IF tenant_context = NoCtx THEN [raised |-> TRUE, message |-> NoMessage]
    ELSE LET sender_phone == ExtractSenderPhone(event.remoteJid, event.participant)
         IN  IF ~NormalizedMessageValid(event.id, tenant_context.user_id,
                                        tenant_context.tenant_id, sender_phone,
                                        event.timestamp)
                 THEN [raised |-> FALSE, message |-> NoMessage]
             ELSE [raised |-> FALSE,
                   message |-> MakeMessage(event.id, tenant_context.user_id,
                                           tenant_context.tenant_id, sender_phone,
                                           event.instance,
                                           IsGroupJid(event.remoteJid), event.text)]

\* MessageNormalizer.normalize: the NormalizedMessage, NoMessage (None), or an
\* exception when there is no tenant context to read the identity from (the
\* except clauses read it again).
Normalize(event, tenant_context) ==
    IF tenant_context = NoCtx THEN [raised |-> TRUE, message |-> NoMessage]
    ELSE LET sender_phone == ExtractSenderPhone(event.remoteJid, event.participant)
         IN  IF ~NormalizedMessageValid(event.id, tenant_context.tenant_id,
                                        tenant_context.user_id, sender_phone,
                                        event.timestamp)
                 THEN [raised |-> FALSE, message |-> NoMessage]
             ELSE [raised |-> FALSE,
                   message |-> MakeMessage(event.id, tenant_context.tenant_id,
                                           tenant_context.user_id, sender_phone,
                                           event.instance,
                                           IsGroupJid(event.remoteJid), event.text)]

-----------------------------------------------------------------------------
(* MessageIngestionHandler *)

\* WebhookSecurityValidator.validate_request: the validated event, an error
\* message, or an exception (a JSON body that is not an object cannot be
\* unpacked into the schema's constructor).
ValidateRequest(event) ==
    CASE event.body = "empty" ->
            [event |-> NoEvent, error |-> "Empty or invalid request body", raised |-> FALSE]
      [] event.body = "not_json" ->
            [event |-> NoEvent, error |-> "Invalid JSON format", raised |-> FALSE]
      [] event.body = "non_object" ->
            [event |-> NoEvent, error |-> "", raised |-> TRUE]
      [] event.body = "schema_invalid" ->
            [event |-> NoEvent, error |-> "Invalid W-API payload format", raised |-> FALSE]
      [] OTHER ->
            [event |-> event, error |-> "", raised |-> FALSE]

\* payload=webhook_event.dict(): the dict the gate is given has the
\* identifiers the sender added to the payload when the schema keeps unknown
\* fields (keeps_extra), and has none of them when it drops them.
EventDict(event, keeps_extra) ==
    IF keeps_extra THEN MakePayload(event.tenant_id, event.user_id)
    ELSE MakePayload(Absent, Absent)

\* a test of the gate's result that looks for the instance_id reason only
GateRejectsOnInstanceOnly(g) == "instance_id" \in g.errors

\* The handler's test of the gate's result: `validation_errors or not tenant_context`
GateRejects(g) == g.errors # {} \/ g.ctx = NoCtx

NoGate == [none |-> TRUE]

\* What a process_webhook call did: the HTTP response, the steps it ran in
\* order, the gate's result, the normalized message, whether the message was
\* sent to the queue, and the resolver's cache after the call.
Response(status, message, steps, gate, normalized, forwarded, c) ==
    [status |-> status, message |-> message, steps |-> steps, gate |-> gate,
     normalized |-> normalized, forwarded |-> forwarded, cache |-> c]

StepsToGate == <<"validate_request", "validate_and_resolve">>

StepsToNormalize == StepsToGate \o <<"normalize">>

StepsToForward == StepsToNormalize \o <<"forward_to_queue">>

\* MessageIngestionHandler.process_webhook. sqs_ok: the queue is configured
\* and the send succeeds (_forward_to_queue returns True). After a
\* successful send the handler calls logger.message_processed with keyword
\* arguments that method does not take; the TypeError is caught by the
\* handler's `except Exception`, which answers 500.
ProcessWebhook(c, st, event, keeps_extra, fault, owner, sqs_ok) ==
    LET v == ValidateRequest(event)
        webhook_event == v.event
        g == ValidateAndResolve(c, st, webhook_event.instance, webhook_event.apikey,
                                webhook_event.remoteJid,
                                EventDict(webhook_event, keeps_extra), fault, owner)
        n == Normalize(webhook_event, g.ctx)
    IN  IF v.raised
            THEN Response(500, "Internal server error", <<"validate_request">>,
                          NoGate, NoMessage, FALSE, c)
        ELSE IF v.error # ""
            THEN Response(400, v.error, <<"validate_request">>,
                          NoGate, NoMessage, FALSE, c)
        ELSE IF ~ShouldProcessEvent(webhook_event.event)
            THEN Response(200, "Event ignored", <<"validate_request">>,
                          NoGate, NoMessage, FALSE, c)
        ELSE IF g.raised
            THEN Response(500, "Internal server error", StepsToGate,
                          g, NoMessage, FALSE, g.cache)
        ELSE IF GateRejects(g)
            THEN Response(403, "Unauthorized: Invalid or inactive W-API instance",
                          StepsToGate, g, NoMessage, FALSE, g.cache)
        ELSE IF n.raised
            THEN Response(500, "Internal server error", StepsToNormalize,
                          g, NoMessage, FALSE, g.cache)
        ELSE IF n.message = NoMessage
            THEN Response(500, "Failed to normalize message", StepsToNormalize,
                          g, NoMessage, FALSE, g.cache)
        ELSE IF ~sqs_ok
            THEN Response(500, "Failed to queue message", StepsToForward,
                          g, n.message, FALSE, g.cache)
        ELSE Response(500, "Internal server error",
                      StepsToForward \o <<"message_processed">>,
                      g, n.message, TRUE, g.cache)

-----------------------------------------------------------------------------
(* TenantContextLogger *)

\* _tenant_context holds the keys tenant_id, user_id and message_id or none
\* of them; Absent is a missing key
NoLogContext == [tenant_id |-> Absent, user_id |-> Absent, message_id |-> Absent]

NoLogRecord == [none |-> TRUE]

\* TenantContextLogger.__init__
NewLogger == [context |-> NoLogContext, last |-> NoLogRecord]

\* TenantContextLogger.set_context with the three keys process passes
SetContext(lg, message) ==
    [lg EXCEPT !.context = [tenant_id |-> message.tenant_id,
                            user_id |-> message.user_id,
                            message_id |-> message.message_id]]

\* TenantContextLogger.clear_context
ClearContext(lg) == [lg EXCEPT !.context = NoLogContext]

\* TenantContextLogger._add_context: the context, overridden by the keyword
\* arguments of the log call
AddContext(context, extra) ==
    [k \in DOMAIN context |-> IF extra[k] # Absent THEN extra[k] ELSE context[k]]

\* Keyword arguments of a log call that names none of the three keys
NoExtra == NoLogContext

\* info, warning, error: the record emitted; sender is the message the
\* calling code is working on
Emit(lg, sender, event, extra) ==
    [lg EXCEPT !.last = [sender |-> sender.message_id, event |-> event,
                         fields |-> AddContext(lg.context, extra)]]

-----------------------------------------------------------------------------
(* MessageProcessingOrchestrator *)

AuditEntry(step, decision, confidence) ==
    [step |-> step, decision |-> decision, confidence |-> confidence]

NoClassification == [none |-> TRUE]

\* The initial ProcessingState of process. Two fields are the observer's:
\* visited lists the nodes the graph has run, agent_calls counts the calls of
\* _urgency_agent_sync.
InitialState(message) ==
    [message |-> message, rule_decision |-> "none", rule_confidence |-> 0,
     urgency_agent_decision |-> "none", urgency_agent_confidence |-> 0,
     classification_result |-> NoClassification,
     classification_category |-> "", classification_routing |-> "digest",
     final_decision |-> "digest", audit_trail |-> <<>>,
     visited |-> <<>>, agent_calls |-> 0]

\* _node_rule_engine once the engine has returned rule_result
RecordRuleResult(state, rule_result) ==
    [state EXCEPT
        !.rule_decision = rule_result.decision,
        !.rule_confidence = rule_result.confidence,
        !.audit_trail = Append(@, AuditEntry("rule_engine", rule_result.decision,
                                             rule_result.confidence))]

\* _node_rule_engine
NodeRuleEngine(state) == RecordRuleResult(state, EvaluateMatch(state.message))

\* _urgency_agent_sync: decision and confidence by the number of urgent
\* keywords in the text
UrgencyAgentSync(message) ==
    LET urgent_count == TextInfo(message.text).urgent_kw
    IN  IF urgent_count >= 3 THEN [decision |-> "urgent", confidence |-> 85000]
        ELSE IF urgent_count >= 1 THEN [decision |-> "urgent", confidence |-> 70000]
        ELSE [decision |-> "not_urgent", confidence |-> 65000]

\* an escalation stage that consults the agent whatever the rule engine said
NodeUrgencyAgentAlwaysCalls(state, agent_raises) ==
    IF agent_raises
        THEN [state EXCEPT
                !.urgency_agent_decision = "not_urgent",
                !.urgency_agent_confidence = 50000]
    ELSE [state EXCEPT
            !.agent_calls = @ + 1,
            !.urgency_agent_decision = UrgencyAgentSync(state.message).decision,
            !.urgency_agent_confidence = UrgencyAgentSync(state.message).confidence,
            !.audit_trail = Append(@, AuditEntry("urgency_agent",
                                                 UrgencyAgentSync(state.message).decision,
                                                 UrgencyAgentSync(state.message).confidence))]

\* _node_urgency_agent; agent_raises: get_urgency_agent or the agent raises
NodeUrgencyAgent(state, agent_raises) ==
    IF state.rule_decision # "undecided"
        THEN [state EXCEPT
                !.urgency_agent_decision = state.rule_decision,
                !.urgency_agent_confidence = state.rule_confidence,
                !.audit_trail = Append(@, AuditEntry("urgency_agent", "skipped", 0))]
    ELSE IF agent_raises
        THEN [state EXCEPT
                !.urgency_agent_decision = "not_urgent",
                !.urgency_agent_confidence = 50000]
    ELSE [state EXCEPT
            !.agent_calls = @ + 1,
            !.urgency_agent_decision = UrgencyAgentSync(state.message).decision,
            !.urgency_agent_confidence = UrgencyAgentSync(state.message).confidence,
            !.audit_trail = Append(@, AuditEntry("urgency_agent",
                                                 UrgencyAgentSync(state.message).decision,
                                                 UrgencyAgentSync(state.message).confidence))]

\* a synchronous classification that routes immediate only above 0.9
ClassificationAgentSyncStrict(message, urgency_decision, urgency_confidence) ==
    ClassificationResult(
        TextInfo(message.text).category, "resumo",
        IF urgency_decision = "urgent" /\ urgency_confidence > 90000
            THEN "immediate" ELSE "digest",
        JText(<<"classificacao_padrao">>),
        70000)

\* _classification_agent_sync: category and routing
ClassificationAgentSync(message, urgency_decision, urgency_confidence) ==
    ClassificationResult(
        TextInfo(message.text).category, "resumo",
        IF urgency_decision = "urgent" /\ urgency_confidence > 75000
            THEN "immediate" ELSE "digest",
        IF urgency_decision = "urgent" /\ urgency_confidence > 75000
            THEN JText(<<"alta_urgencia_detectada">>)
        ELSE IF urgency_decision = "not_urgent"
            THEN JText(<<"mensagem_para_digest">>)
        ELSE JText(<<"classificacao_padrao">>),
        70000)

\* len("Contato"), the sender name of a message without one
DefaultSenderLen == 7

SummaryBudget == 100

\* _classification_agent_sync: the summary, for a sender name of sender_len
\* characters (0: None or "") and a text of text_len characters
SyncSummaryLen(sender_len, text_len) ==
    LET sender_name == IF sender_len = 0 THEN DefaultSenderLen ELSE sender_len
        summary_prefix == sender_name + 2
        max_text_len == SummaryBudget - summary_prefix
        summary_text == SliceLen(text_len, max_text_len)
    IN  summary_prefix + summary_text
        + (IF text_len > max_text_len THEN EllipsisLen ELSE 0)

\* len("Erro no processamento - mensagem preservada"), the summary of the
\* fallback of _node_classification_agent
NodeFallbackSummaryLen == 43

\* The fallback ClassificationResult built by _node_classification_agent
NodeFallbackResult(urgency_decision) ==
    ClassificationResult("outros", "erro_no_processamento",
                         IF urgency_decision # "urgent" THEN "digest" ELSE "immediate",
                         JText(<<"fallback_devido_a_erro">>), 50000)

\* _node_classification_agent; classifier_raises: get_classification_agent or
\* the classification raises
NodeClassificationAgent(state, classifier_raises) ==
    LET urgency_decision == IF state.urgency_agent_decision # "none"
                            THEN state.urgency_agent_decision
                            ELSE state.rule_decision
        urgency_confidence == IF state.urgency_agent_confidence # 0
                              THEN state.urgency_agent_confidence
                              ELSE state.rule_confidence
        result == ClassificationAgentSync(
                      state.message,
                      IF urgency_decision = "none" THEN "not_urgent" ELSE urgency_decision,
                      urgency_confidence)
        fallback_result == NodeFallbackResult(urgency_decision)
    IN  IF classifier_raises
            THEN [state EXCEPT
                    !.classification_result = fallback_result,
                    !.classification_category = fallback_result.category,
                    !.classification_routing = fallback_result.routing]
        ELSE [state EXCEPT
                !.classification_result = result,
                !.classification_category = result.category,
                !.classification_routing = result.routing,
                !.audit_trail = Append(@, AuditEntry("classification_agent",
                                                     result.routing, result.confidence))]

\* _node_route_decision
NodeRouteDecision(state) ==
    [state EXCEPT
        !.final_decision = state.classification_routing,
        !.audit_trail = Append(@, AuditEntry("route_decision",
                                             state.classification_routing, 0))]

\* _node_audit_log
NodeAuditLog(state) ==
    [state EXCEPT
        !.audit_trail = Append(@, AuditEntry("audit_log", state.final_decision, 0))]

END == "__end__"

\* graph.set_entry_point
EntryPoint == "rule_engine"

\* graph.add_edge: the node that follows a node
Edge(node) ==
    CASE node = "rule_engine" -> "urgency_agent"
      [] node = "urgency_agent" -> "classification_agent"
      [] node = "classification_agent" -> "route_decision"
      [] node = "route_decision" -> "audit_log"
      [] node = "audit_log" -> END

\* graph.add_node: the function a node runs
RunNode(node, state, agent_raises, classifier_raises) ==
    CASE node = "rule_engine" -> NodeRuleEngine(state)
      [] node = "urgency_agent" -> NodeUrgencyAgent(state, agent_raises)
      [] node = "classification_agent" ->
            NodeClassificationAgent(state, classifier_raises)
      [] node = "route_decision" -> NodeRouteDecision(state)
      [] node = "audit_log" -> NodeAuditLog(state)

RECURSIVE Invoke(_, _, _, _)

\* graph.ainvoke from a node on: run the node, follow its edge, until END
Invoke(node, state, agent_raises, classifier_raises) ==
    IF node = END THEN state
    ELSE Invoke(Edge(node),
                [RunNode(node, state, agent_raises, classifier_raises)
                    EXCEPT !.visited = Append(@, node)],
                agent_raises, classifier_raises)

\* The graph run from its entry point on the initial state
RunGraph(message, agent_raises, classifier_raises) ==
    Invoke(EntryPoint, InitialState(message), agent_raises, classifier_raises)

\* The ProcessingResult process builds from the final state
MakeResult(message, final_state) ==
    [message_id |-> message.message_id,
     tenant_id |-> message.tenant_id,
     user_id |-> message.user_id,
     decision |-> final_state.final_decision,
     rule_engine_decision |-> final_state.rule_decision,
     rule_confidence |-> final_state.rule_confidence,
     llm_used |-> final_state.rule_decision = "undecided",
     audit_trail |-> final_state.audit_trail]

\* MessageProcessingOrchestrator.process: the ProcessingResult
ProcessMessage(message, agent_raises, classifier_raises) ==
    MakeResult(message, RunGraph(message, agent_raises, classifier_raises))

\* The keyword arguments naming tenant_id, user_id or message_id in the log
\* call a node makes at level INFO or above (the debug calls emit nothing)
NodeLogExtra(node, message, classifier_raises) ==
    IF node = "classification_agent"
        THEN [tenant_id |-> message.tenant_id,
              user_id |-> IF classifier_raises THEN Absent ELSE message.user_id,
              message_id |-> Absent]
    ELSE NoExtra

\* Whether a node logs at level INFO or above: the rule engine node and the
\* skipping escalation node only log at level DEBUG
NodeLogs(node, state) ==
    /\ node # "rule_engine"
    /\ (node = "urgency_agent" => state.rule_decision = "undecided")

-----------------------------------------------------------------------------
(* Inputs *)

ApiKeys == {NoKey, "", "k1", "bad"}

GateApiKeys == {NoKey, "bad"}

\* JIDs: a contact with the digits of the instances' phone, another contact,
\* a group whose id has the digits of the instances' phone
JidA == PhoneA \o <<"@", "s.whatsapp.net">>

JidB == PhoneB \o <<"@", "s.whatsapp.net">>

GroupJidA == PhoneA \o <<"@", "g.us">>

Phones == {NoPhone, JidA, JidB}

PayloadTenants == {Absent, "t1"}

PayloadUsers == {Absent, "", "u9"}

Payloads == {NoPayload} \cup {MakePayload(t, u) : t \in PayloadTenants, u \in PayloadUsers}

\* Status of the instance in the store when a call is made ("none" when the
\* store has no such instance)
StoreStatus(st, instance_id) ==
    IF instance_id \in DOMAIN st THEN st[instance_id].status ELSE "none"

StoreHash(st, instance_id) ==
    IF instance_id \in DOMAIN st THEN st[instance_id].api_key_hash ELSE NoHash

NoCall == [fn |-> "none"]

NoWebhook == [request |-> 0]

NoProcessing == [request |-> 0]

\* A participant JID with too few digits for a phone number
ShortJid == <<"2", "6", "@", "s.whatsapp.net">>

\* Webhooks of a contact with the instance's own digits: through i1 with
\* each choice of identifiers added to the payload, through i2 with and
\* without the tenant_id of i1
CoreEvents ==
    {MakeEvent("i1", "messages.upsert", NoKey, JidA, NoPhone, "senha_banco", 0, t, u) :
        t \in PayloadTenants, u \in PayloadUsers}
    \cup
    {MakeEvent("i2", "messages.upsert", NoKey, JidA, NoPhone, "senha_banco", 0, t, Absent) :
        t \in PayloadTenants}

\* An unknown instance, a wrong credential, a sender that is not the
\* instance's phone, group messages with a full and with a short participant,
\* a negative timestamp, a text the rules leave undecided, an event type
\* that is not processed
SpecialEvents ==
    {MakeEvent(UnknownInstance, "messages.upsert", NoKey, JidA, NoPhone,
               "senha_banco", 0, Absent, Absent),
     MakeEvent("i1", "messages.upsert", "bad", JidA, NoPhone,
               "senha_banco", 0, Absent, Absent),
     MakeEvent("i1", "messages.upsert", NoKey, JidB, NoPhone,
               "senha_banco", 0, Absent, Absent),
     MakeEvent("i1", "messages.upsert", NoKey, GroupJidA, JidB,
               "urgente_agora", 17, Absent, Absent),
     MakeEvent("i1", "messages.upsert", NoKey, GroupJidA, ShortJid,
               "urgente_agora", 17, Absent, Absent),
     MakeEvent("i1", "messages.upsert", NoKey, JidA, NoPhone,
               "pix", -1, Absent, Absent),
     MakeEvent("i1", "messages.upsert", NoKey, JidA, NoPhone,
               "reuniao", 17, Absent, Absent),
     MakeEvent("i1", "connection.update", NoKey, JidA, NoPhone,
               "empty", 0, Absent, Absent)}

BrokenEvents ==
    {BrokenEvent(b) : b \in {"empty", "not_json", "non_object", "schema_invalid"}}

WebhookEvents == CoreEvents \cup SpecialEvents \cup BrokenEvents

NoRuleRef == [none |-> TRUE]

NoRuleObs == [kind |-> "none", ref |-> NoRuleRef]

NoObs ==
    [kind |-> "none", instance_id |-> "", api_key |-> NoKey, payload |-> NoPayload,
     ctx |-> NoCtx, errors |-> {}, raised |-> FALSE, from_cache |-> FALSE,
     store_status |-> "none", stale |-> FALSE]

-----------------------------------------------------------------------------
(* Resolver and gate as called directly *)

InitStore == [i \in StoreInstances |-> WithStatus(RecordOf(i), "active")]

TenantIdle ==
    /\ store = InitStore
    /\ cache = EmptyCache
    /\ obs = NoObs

UrgencyIdle == ucall = NoCall

IngestIdle ==
    /\ received = 0
    /\ hobs = NoWebhook
    /\ queue = <<>>
    /\ pobs = NoProcessing
    /\ rejected = {}
    /\ evaluated = {}

RulesIdle ==
    /\ stats = EmptyStats
    /\ robs = NoRuleObs

\* No call is in progress and the logger has no context
ConcurrentIdle ==
    /\ inflight = <<>>
    /\ logger = NewLogger

InitTenant ==
    /\ TenantIdle
    /\ UrgencyIdle
    /\ RulesIdle
    /\ ConcurrentIdle
    /\ IngestIdle

\* The tenant store changes the status of an instance (an operator suspends,
\* disables or re-activates it); the resolver is not told.
StoreSetStatus(i, s) ==
    /\ store[i].status # s
    /\ store' = [store EXCEPT ![i] = WithStatus(RecordOf(i), s)]
    /\ UNCHANGED <<concurrentVars, cache, obs, urgencyVars, ruleVars, ingestVars>>

\* A cached context is stale when the store no longer has its status
Stale(c, st, instance_id) ==
    /\ c[instance_id] # NoCtx
    /\ c[instance_id].status # StoreStatus(st, instance_id)

\* One call of resolve_from_instance
Resolve(i, k, fault) ==
    \E r \in {ResolveFromInstance(cache, store, i, k, InstanceFault(fault))} :
        /\ cache' = r.cache
        /\ obs' = [kind |-> "resolve", instance_id |-> i, api_key |-> k,
                   payload |-> NoPayload, ctx |-> r.ctx, errors |-> {},
                   raised |-> FALSE, from_cache |-> r.from_cache,
                   store_status |-> StoreStatus(store, i),
                   stale |-> Stale(cache, store, i)]
        /\ UNCHANGED <<concurrentVars, store, urgencyVars, ruleVars, ingestVars>>

\* One call of validate_and_resolve
Validate(i, k, phone, payload, fault) ==
    \E owner \in (IF OwnerFault(fault) = "raise" THEN {OwnerRaises}
                  ELSE GetOwnerByPhone(store, phone, OwnerFault(fault))) :
        \E g \in {ValidateAndResolve(cache, store, i, k, phone, payload, fault, owner)} :
            /\ cache' = g.cache
            /\ obs' = [kind |-> "gate", instance_id |-> i, api_key |-> NoKey,
                       payload |-> payload, ctx |-> g.ctx, errors |-> g.errors,
                       raised |-> g.raised, from_cache |-> FALSE,
                       store_status |-> StoreStatus(store, i),
                       stale |-> Stale(cache, store, i)]
            /\ UNCHANGED <<concurrentVars, store, urgencyVars, ruleVars, ingestVars>>

NextTenant ==
    \/ \E i \in StoreInstances, s \in Statuses : StoreSetStatus(i, s)
    \/ \E i \in InstanceIds, k \in ApiKeys, f \in Faults : Resolve(i, k, f)
    \/ \E i \in InstanceIds, k \in GateApiKeys, p \in Phones, pl \in Payloads,
          f \in Faults : Validate(i, k, p, pl, f)

SpecTenant == InitTenant /\ [][NextTenant]_vars

-----------------------------------------------------------------------------
(* The resolver of a deployment with more instances than the cache holds *)

FleetNumbers == 1..(CacheThreshold + SpareInstances)

FleetInstance(n) == ToString(n)

FleetInstances == {FleetInstance(n) : n \in FleetNumbers}

\* Every instance of the fleet is active and belongs to a tenant of its own
FleetRecord(n) ==
    [tenant_id |-> FleetInstance(n), user_id |-> FleetInstance(n),
     wapi_instance_id |-> FleetInstance(n), phone_number |-> <<"+">> \o PhoneA,
     api_key_hash |-> NoHash, status |-> "active"]

FleetStore == [i \in FleetInstances |-> FleetRecord(CHOOSE n \in FleetNumbers : FleetInstance(n) = i)]

\* The cache of a resolver that has resolved the first k instances
CacheAfter(k) ==
    [i \in FleetInstances |->
        IF \E n \in 1..k : FleetInstance(n) = i
        THEN MakeContext(FleetStore[i], "active") ELSE NoCtx]

\* Numbers of instances a long-running resolver has resolved already
Prefills == {0, CacheThreshold - 1, CacheThreshold}

InitFleet ==
    /\ store = FleetStore
    /\ \E k \in Prefills : cache = CacheAfter(k)
    /\ obs = NoObs
    /\ UrgencyIdle
    /\ RulesIdle
    /\ ConcurrentIdle
    /\ IngestIdle

\* resolve_from_instance for an instance the resolver has not cached: the
\* instance numbered one more than the entries the cache holds
ResolveNew ==
    \E n \in {CacheSize(cache) + 1} \cap FleetNumbers :
        /\ cache[FleetInstance(n)] = NoCtx
        /\ Resolve(FleetInstance(n), NoKey, "ok")

\* resolve_from_instance again for the instance resolved last
ResolveAgain ==
    /\ obs.kind = "resolve"
    /\ ~obs.from_cache
    /\ Resolve(obs.instance_id, NoKey, "ok")

NextFleet ==
    \/ ResolveNew
    \/ ResolveAgain

SpecFleet == InitFleet /\ [][NextFleet]_vars

-----------------------------------------------------------------------------
(* One call of the resolver on a store whose items lack attributes *)

\* The records _deserialize can build for an instance: tenant_id may be the
\* empty string, and phone_number is "" when the item has no such attribute
RecordVariants(i) ==
    {[RecordOf(i) EXCEPT !.tenant_id = t, !.phone_number = p] :
        t \in {RecordOf(i).tenant_id, ""}, p \in {RecordOf(i).phone_number, <<>>}}

RecordStores ==
    {[i \in StoreInstances |-> WithStatus(f[i], g[i])] :
        f \in {h \in [StoreInstances -> UNION {RecordVariants(i) : i \in StoreInstances}] :
                  \A i \in StoreInstances : h[i] \in RecordVariants(i)},
        g \in [StoreInstances -> Statuses]}

InstanceFaults == {"ok", "instance_client_error", "instance_raise"}

ResolveCalls ==
    {[kind |-> "call", instance_id |-> i, api_key |-> k, fault |-> f] :
        i \in InstanceIds, k \in ApiKeys, f \in InstanceFaults}

InitRecords ==
    /\ store \in RecordStores
    /\ cache = EmptyCache
    /\ obs \in ResolveCalls
    /\ UrgencyIdle
    /\ RulesIdle
    /\ ConcurrentIdle
    /\ IngestIdle

\* The pending call of resolve_from_instance is made
CallResolve ==
    /\ obs.kind = "call"
    /\ Resolve(obs.instance_id, obs.api_key, obs.fault)

NextRecords == CallResolve

SpecRecords == InitRecords /\ [][NextRecords]_vars

-----------------------------------------------------------------------------
(* Two calls of resolve_from_instance in progress at once *)

RaceFaults == {"ok", "instance_raise"}

\* A call of resolve_from_instance that has not started; pc is its position:
\* "cache" before the cache is read, "lookup" before the store is queried,
\* "add" before _add_to_cache, "done" after the return
NewResolve(instance_id, api_key, fault) ==
    [instance_id |-> instance_id, api_key |-> api_key, fault |-> fault,
     pc |-> "cache", context |-> NoCtx, returned |-> NoCtx, from_cache |-> FALSE]

RaceCalls ==
    {NewResolve(i, k, f) : i \in InstanceIds, k \in GateApiKeys, f \in RaceFaults}

InitRace ==
    /\ TenantIdle
    /\ UrgencyIdle
    /\ RulesIdle
    /\ IngestIdle
    /\ \E first \in RaceCalls, second \in RaceCalls : inflight = <<first, second>>
    /\ logger = NewLogger

\* resolve_from_instance reads the cache and returns on a hit
ReadCache(r) ==
    LET call == inflight[r]
        cached == GetFromCache(cache, call.instance_id)
    IN  /\ call.pc = "cache"
        /\ inflight' = [inflight EXCEPT
                           ![r].pc = IF cached # NoCtx /\ IsActive(cached)
                                        THEN "done" ELSE "lookup",
                           ![r].returned = IF cached # NoCtx /\ IsActive(cached)
                                              THEN cached ELSE NoCtx,
                           ![r].from_cache = cached # NoCtx /\ IsActive(cached)]
        /\ UNCHANGED <<tenantVars, urgencyVars, ruleVars, ingestVars, logger>>

\* resolve_from_instance queries the store, verifies the record and builds
\* the context: what the call does on a cache without entries
Lookup(r) ==
    LET call == inflight[r]
        verified == ResolveFromInstance(Cleared(cache), store, call.instance_id,
                                        call.api_key, call.fault).ctx
    IN  /\ call.pc = "lookup"
        /\ inflight' = [inflight EXCEPT
                           ![r].pc = IF verified = NoCtx THEN "done" ELSE "add",
                           ![r].context = verified]
        /\ UNCHANGED <<tenantVars, urgencyVars, ruleVars, ingestVars, logger>>

\* resolve_from_instance caches the context it built and returns it
Add(r) ==
    LET call == inflight[r]
    IN  /\ call.pc = "add"
        /\ cache' = AddToCache(cache, call.instance_id, call.context)
        /\ inflight' = [inflight EXCEPT ![r].pc = "done",
                                        ![r].returned = call.context]
        /\ UNCHANGED <<store, obs, urgencyVars, ruleVars, ingestVars, logger>>

\* The store changes a status while calls are in progress
RaceSetStatus(i, s) ==
    /\ store[i].status # s
    /\ store' = [store EXCEPT ![i] = WithStatus(RecordOf(i), s)]
    /\ UNCHANGED <<cache, obs, urgencyVars, ruleVars, ingestVars, concurrentVars>>

NextRace ==
    \/ \E r \in 1..2 : ReadCache(r)
    \/ \E r \in 1..2 : Lookup(r)
    \/ \E r \in 1..2 : Add(r)
    \/ \E i \in StoreInstances, s \in Statuses : RaceSetStatus(i, s)

SpecRace == InitRace /\ [][NextRace]_vars

-----------------------------------------------------------------------------
(* One call of the gate, in every state the store and the cache can be in *)

\* The stores an operator can have produced by changing statuses
StoreStates ==
    {[i \in StoreInstances |-> WithStatus(RecordOf(i), f[i])] :
        f \in [StoreInstances -> Statuses]}

\* The caches earlier resolve calls can have left: an instance is not cached,
\* or cached with the status (active or suspended) it had when resolved
CacheStates ==
    {[i \in InstanceIds |-> IF i \in StoreInstances /\ f[i] # "none"
                              THEN MakeContext(RecordOf(i), f[i]) ELSE NoCtx] :
        f \in [StoreInstances -> {"none", "active", "suspended"}]}

GateCalls ==
    {[kind |-> "call", instance_id |-> i, api_key |-> k, sender_phone |-> p,
      payload |-> pl, fault |-> f] :
        i \in InstanceIds, k \in GateApiKeys, p \in Phones, pl \in Payloads,
        f \in Faults}

InitGate ==
    /\ store \in StoreStates
    /\ cache \in CacheStates
    /\ obs \in GateCalls
    /\ UrgencyIdle
    /\ RulesIdle
    /\ ConcurrentIdle
    /\ IngestIdle

\* The pending call of validate_and_resolve is made
CallGate ==
    /\ obs.kind = "call"
    /\ \E owner \in (IF OwnerFault(obs.fault) = "raise" THEN {OwnerRaises}
                     ELSE GetOwnerByPhone(store, obs.sender_phone, OwnerFault(obs.fault))) :
        \E g \in {ValidateAndResolve(cache, store, obs.instance_id, obs.api_key,
                                     obs.sender_phone, obs.payload, obs.fault, owner)} :
            /\ cache' = g.cache
            /\ obs' = [kind |-> "gate", instance_id |-> obs.instance_id,
                       api_key |-> obs.api_key, sender_phone |-> obs.sender_phone,
                       payload |-> obs.payload, fault |-> obs.fault,
                       owner |-> owner, before |-> cache,
                       ctx |-> g.ctx, errors |-> g.errors, raised |-> g.raised,
                       lookups |-> GateLookups(cache, store, obs.instance_id,
                                               obs.api_key, obs.sender_phone,
                                               obs.fault)]
    /\ UNCHANGED <<concurrentVars, store, urgencyVars, ruleVars, ingestVars>>

NextGate == CallGate

SpecGate == InitGate /\ [][NextGate]_vars

-----------------------------------------------------------------------------
(* The rule engine as called directly *)

GroupTexts == {"oi", "promo", "senha_banco"}

RuleMessages ==
    {MakeMessage("m1", "t1", "u1", PhoneA, "i1", FALSE, t) : t \in TextIds}
    \cup {MakeMessage("m1", "t1", "u1", PhoneA, "i1", TRUE, t) : t \in GroupTexts}

\* One call of UrgencyRuleEngine.evaluate; remember says whether the observer
\* keeps this call as the reference for later calls with the same message
Evaluate(message, remember) ==
    /\ stats.total_evaluations < MaxEvaluations
    /\ \E r \in {EngineEvaluate(stats, message)} :
          /\ stats' = r.stats
          /\ robs' = [kind |-> "evaluate", message |-> message, match |-> r.match,
                      ref |-> IF remember
                                THEN [message |-> message, match |-> r.match,
                                      before |-> stats.total_evaluations]
                                ELSE robs.ref]
    /\ UNCHANGED <<concurrentVars, tenantVars, urgencyVars, ingestVars>>

\* UrgencyRuleEngine.reset_stats
ResetStats ==
    /\ stats' = EmptyStats
    /\ UNCHANGED <<concurrentVars, robs, tenantVars, urgencyVars, ingestVars>>

InitRules ==
    /\ TenantIdle
    /\ UrgencyIdle
    /\ RulesIdle
    /\ ConcurrentIdle
    /\ IngestIdle

NextRules ==
    \/ \E m \in RuleMessages, remember \in BOOLEAN : Evaluate(m, remember)
    \/ ResetStats

SpecRules == InitRules /\ [][NextRules]_vars

-----------------------------------------------------------------------------
(* The urgency agent as called directly *)

\* Confidences around every threshold of the conservative logic
ConfidenceValues ==
    {0, 30000, 50000, 64900, 65000, 74900, 75000, 84900, 85000, 89900, 90000,
     ConfScale}

Histories ==
    {NoHistory} \cup
    {MakeHistory(total, c[1], c[2]) :
        total \in {0, 1, 4, 5, 9, 10, 11},
        c \in {<<0, 0>>, <<1, 9>>, <<1, 10>>, <<5, 5>>}}

AgentMessages ==
    {MakeMessage("m1", "t1", "u1", PhoneA, "i1", g, t) :
        g \in BOOLEAN, t \in {"oi", "oi_tudo_bem"}}

ClassifierResults ==
    {UrgencyResult(u, LlmReason, c) : u \in BOOLEAN, c \in ConfidenceValues}

UrgentMembers == {JAbsent, JNull, JBool(TRUE), JBool(FALSE), JStr(FALSE, NotNumeric)}

ConfidenceMembers ==
    {JAbsent, JNull, JStr(FALSE, NotNumeric), JStr(FALSE, 95000),
     JNum(-20000), JNum(40000), JNum(74900), JNum(95000), JNum(700000)}

Responses ==
    {MakeResponse("not_json", JAbsent, JAbsent, <<>>),
     MakeResponse("non_object", JAbsent, JAbsent, <<>>)} \cup
    {MakeResponse("object", u, c, r) :
        u \in UrgentMembers, c \in ConfidenceMembers, r \in {<<>>, LlmReason}}

LlmOutcomes == {LlmApiRaises, LlmCallRaises} \cup {LlmResponds(r) : r \in Responses}

NoResult == [none |-> TRUE]

LogicCalls ==
    {[fn |-> "logic", result |-> r, history |-> h, message |-> m,
      api_key_set |-> TRUE, llm |-> LlmApiRaises, done |-> FALSE, out |-> NoResult] :
        r \in ClassifierResults, h \in Histories, m \in AgentMessages}

RunCalls ==
    {[fn |-> "run", result |-> NoResult, history |-> h, message |-> m,
      api_key_set |-> k, llm |-> l, done |-> FALSE, out |-> NoResult] :
        h \in {NoHistory, MakeHistory(5, 5, 5)}, m \in AgentMessages,
        k \in BOOLEAN, l \in LlmOutcomes}

InitUrgency ==
    /\ TenantIdle
    /\ RulesIdle
    /\ ConcurrentIdle
    /\ IngestIdle
    /\ ucall \in LogicCalls \cup RunCalls

\* The call of _apply_conservative_logic is made
CallLogic ==
    /\ ucall.fn = "logic"
    /\ ~ucall.done
    /\ ucall' = [ucall EXCEPT
                    !.done = TRUE,
                    !.out = ApplyConservativeLogic(ucall.result, ucall.history,
                                                   ucall.message)]
    /\ UNCHANGED <<concurrentVars, tenantVars, ruleVars, ingestVars>>

\* The call of run is made
CallRun ==
    /\ ucall.fn = "run"
    /\ ~ucall.done
    /\ ucall' = [ucall EXCEPT
                    !.done = TRUE,
                    !.out = Run(ucall.message, ucall.history, ucall.api_key_set,
                                ucall.llm)]
    /\ UNCHANGED <<concurrentVars, tenantVars, ruleVars, ingestVars>>

NextUrgency == CallLogic \/ CallRun

SpecUrgency == InitUrgency /\ [][NextUrgency]_vars

-----------------------------------------------------------------------------
(* The classification agent and the classification stage as called directly *)

\* Urgency confidences on both sides of the thresholds of the routing logic
RoutingConfidences == {0, 49900, 50000, 70000, 70100, 75000, 75100, ConfScale}

UrgencyDecisions == {"urgent", "not_urgent", "undecided"}

ClassificationMessages ==
    {MakeMessage("m1", "t1", u, PhoneA, "i1", FALSE, "oi_tudo_bem") : u \in {"u1", ""}}

KeylessMessages ==
    {MakeMessage("m1", "t1", "u1", PhoneA, "i1", FALSE, t) :
        t \in {"empty", "oi_tudo_bem", "pix"}}

ClassificationResponses ==
    {MakeClassification("not_json", JAbsent, JAbsent, JAbsent, JAbsent, JAbsent),
     MakeClassification("non_object", JAbsent, JAbsent, JAbsent, JAbsent, JAbsent)}
    \cup
    {MakeClassification("object", c, sm, r, rs, cf) :
        c \in {JAbsent, JText("financeiro"), JText("nada")},
        sm \in {JText("resumo"), JNull},
        r \in {JAbsent, JNull, JText("immediate"), JText("digest"), JText("spam"),
               JText("IMMEDIATE"), JText("later")},
        rs \in {JAbsent, JNull, JText(<<"llm">>)},
        cf \in {JAbsent, JNum(70000), JStr(FALSE, NotNumeric)}}

ClassificationOutcomes ==
    {LlmCallRaises} \cup {LlmResponds(r) : r \in ClassificationResponses}

\* The response _call_llm returns when the API key is set
MockResponse ==
    MakeClassification("object", JText("geral"), JText("resumo"), JText("digest"),
                       JText(<<"classificacao_padrao">>), JNum(70000))

ClassifyCalls ==
    {[fn |-> "classify", message |-> m, urgency_decision |-> d,
      urgency_confidence |-> c, api_key_set |-> TRUE, llm |-> l,
      done |-> FALSE, out |-> NoResult] :
        m \in ClassificationMessages, d \in UrgencyDecisions,
        c \in RoutingConfidences, l \in ClassificationOutcomes}
    \cup
    {[fn |-> "classify", message |-> m, urgency_decision |-> d,
      urgency_confidence |-> c, api_key_set |-> FALSE, llm |-> l,
      done |-> FALSE, out |-> NoResult] :
        m \in KeylessMessages, d \in UrgencyDecisions,
        c \in RoutingConfidences, l \in {LlmCallRaises, LlmResponds(MockResponse)}}

\* The states the classification stage is entered with: those the rule
\* engine and the escalation stage leave
StageCalls ==
    {[fn |-> "stage",
      state |-> NodeUrgencyAgent(NodeRuleEngine(InitialState(m)), agent_raises),
      classifier_raises |-> classifier_raises, done |-> FALSE, out |-> NoResult] :
        m \in RuleMessages, agent_raises \in BOOLEAN, classifier_raises \in BOOLEAN}

InitClassification ==
    /\ TenantIdle
    /\ RulesIdle
    /\ ConcurrentIdle
    /\ IngestIdle
    /\ ucall \in ClassifyCalls \cup StageCalls

\* The call of ClassificationAgent.run is made
CallClassification ==
    /\ ucall.fn = "classify"
    /\ ~ucall.done
    /\ ucall' = [ucall EXCEPT
                    !.done = TRUE,
                    !.out = ClassificationRun(ucall.message, ucall.urgency_decision,
                                              ucall.urgency_confidence,
                                              ucall.api_key_set, ucall.llm)]
    /\ UNCHANGED <<concurrentVars, tenantVars, ruleVars, ingestVars>>

\* The classification stage of the orchestrator runs on a state
CallClassificationStage ==
    /\ ucall.fn = "stage"
    /\ ~ucall.done
    /\ ucall' = [ucall EXCEPT
                    !.done = TRUE,
                    !.out = NodeClassificationAgent(ucall.state,
                                                    ucall.classifier_raises)]
    /\ UNCHANGED <<concurrentVars, tenantVars, ruleVars, ingestVars>>

NextClassification == CallClassification \/ CallClassificationStage

SpecClassification == InitClassification /\ [][NextClassification]_vars

-----------------------------------------------------------------------------
(* The results of every classification path, with the summary they carry *)

MaxNameLen == 110

MaxPadding == 60

\* Sender names by their length; 0 is a message without a sender name
NameLens == 0..MaxNameLen

\* A text is one of the texts followed by filler characters that hold no
\* keyword
Paddings == {0, MaxPadding}

SummaryMessages ==
    {MakeMessage("m1", "t1", "u1", PhoneA, "i1", FALSE, t) :
        t \in {"empty", "oi_tudo_bem", "reuniao"}}

\* Lengths of the summary in a classifier response
ProposedLens == {0, SummaryCap, SummaryCap + 1, 400}

SummaryResponses ==
    {MakeClassification("object", c, JText("resumo"), r, JText(<<"llm">>), cf) :
        c \in {JText("financeiro"), JText("nada")},
        r \in {JText("IMMEDIATE"), JText("later")},
        cf \in {JAbsent, JNum(70000)}}
    \cup {MakeClassification("not_json", JAbsent, JAbsent, JAbsent, JAbsent, JAbsent)}

SummaryCalls ==
    {[fn |-> "summary", message |-> m, padding |-> p, sender_len |-> n,
      urgency_decision |-> d, urgency_confidence |-> 75100,
      response |-> r, proposed_len |-> q, done |-> FALSE, out |-> NoResult] :
        m \in SummaryMessages, p \in Paddings, n \in NameLens,
        d \in {"urgent", "not_urgent"}, r \in SummaryResponses,
        q \in ProposedLens}

InitSummary ==
    /\ TenantIdle
    /\ RulesIdle
    /\ ConcurrentIdle
    /\ IngestIdle
    /\ ucall \in SummaryCalls

\* The message is classified by ClassificationAgent.run, whose classifier
\* gives the response, and by the synchronous classification of the
\* orchestrator
CallSummary ==
    /\ ucall.fn = "summary"
    /\ ~ucall.done
    /\ \E agent \in {ClassificationRun(ucall.message, ucall.urgency_decision,
                                        ucall.urgency_confidence, TRUE,
                                        LlmResponds(ucall.response))} :
          ucall' = [ucall EXCEPT
            !.done = TRUE,
            !.out = [agent |-> agent.result,
                     agent_summary |->
                        IF agent.result = CreateFallbackResult(ucall.urgency_decision)
                            THEN FallbackSummaryLen
                            ELSE ParsedSummaryLen(ucall.proposed_len),
                     sync |-> ClassificationAgentSync(ucall.message,
                                                      ucall.urgency_decision,
                                                      ucall.urgency_confidence),
                     sync_summary |->
                        SyncSummaryLen(ucall.sender_len,
                                       TextInfo(ucall.message.text).len
                                       + ucall.padding),
                     node_fallback |-> NodeFallbackResult(ucall.urgency_decision),
                     node_fallback_summary |-> NodeFallbackSummaryLen]]
    /\ UNCHANGED <<concurrentVars, tenantVars, ruleVars, ingestVars>>

NextSummary == CallSummary

SpecSummary == InitSummary /\ [][NextSummary]_vars

-----------------------------------------------------------------------------
(* The orchestrator as called directly *)

\* One call of MessageProcessingOrchestrator.process on a message; the rule
\* engine of the orchestrator counts the evaluation
Orchestrate(message, agent_raises, classifier_raises) ==
    /\ stats.total_evaluations < MaxEvaluations
    /\ \E r \in {EngineEvaluate(stats, message)} :
          /\ stats' = r.stats
          /\ robs' = [kind |-> "evaluate", message |-> message, match |-> r.match,
                      ref |-> robs.ref]
    /\ \E final_state \in {RunGraph(message, agent_raises, classifier_raises)} :
          pobs' = [request |-> stats.total_evaluations + 1, payload |-> NoPayload,
                   steps |-> <<>>,
                   message |-> message,
                   state |-> final_state,
                   agent_raises |-> agent_raises,
                   classifier_raises |-> classifier_raises,
                   result |-> ProcessMessage(message, agent_raises,
                                             classifier_raises)]
    /\ UNCHANGED <<concurrentVars, tenantVars, urgencyVars, received, hobs, queue, rejected,
                   evaluated>>

InitOrchestrator ==
    /\ TenantIdle
    /\ UrgencyIdle
    /\ RulesIdle
    /\ ConcurrentIdle
    /\ IngestIdle

NextOrchestrator ==
    \E m \in RuleMessages, agent_raises \in BOOLEAN, classifier_raises \in BOOLEAN :
        Orchestrate(m, agent_raises, classifier_raises)

SpecOrchestrator == InitOrchestrator /\ [][NextOrchestrator]_vars

-----------------------------------------------------------------------------
(* Two messages processed concurrently by one orchestrator *)

ConcurrentTexts == {"oi_tudo_bem", "urgente_agora", "promo"}

\* The first message is of tenant t1, the second of tenant t1 or t2
FirstMessages ==
    {MakeMessage("m1", "t1", "u1", PhoneA, "i1", FALSE, t) : t \in ConcurrentTexts}

SecondMessages ==
    {MakeMessage("m2", "t1", "u1", PhoneA, "i1", FALSE, t) : t \in ConcurrentTexts}
    \cup {MakeMessage("m2", "t2", "u2", PhoneB, "i2", FALSE, t) : t \in ConcurrentTexts}

\* A call of process that has not started: node is the position of the run,
\* "begin" before set_context, then the node to run next, END before the
\* result is built, "done" after the return
NewRun(message, agent_raises, classifier_raises) ==
    [message |-> message, agent_raises |-> agent_raises,
     classifier_raises |-> classifier_raises, node |-> "begin",
     state |-> InitialState(message), overlapped |-> FALSE]

Runs(messages) ==
    {NewRun(m, a, c) : m \in messages, a \in BOOLEAN, c \in BOOLEAN}

InitConcurrent ==
    /\ TenantIdle
    /\ UrgencyIdle
    /\ RulesIdle
    /\ IngestIdle
    /\ \E first \in Runs(FirstMessages), second \in Runs(SecondMessages) :
          inflight = <<first, second>>
    /\ logger = NewLogger

InProgress(run) == run.node \notin {"begin", "done"}

\* process up to the start of the graph: set_context, the initial state
Begin(r) ==
    /\ inflight[r].node = "begin"
    /\ logger' = SetContext(logger, inflight[r].message)
    /\ inflight' = [inflight EXCEPT ![r].node = EntryPoint]
    /\ UNCHANGED <<tenantVars, urgencyVars, ruleVars, ingestVars>>

\* The graph runs the next node of run r; the rule engine node calls
\* evaluate on the engine all runs share
Stage(r) ==
    LET run == inflight[r]
        node == run.node
        evaluation == EngineEvaluate(stats, run.message)
        after == IF node = "rule_engine"
                     THEN RecordRuleResult(run.state, evaluation.match)
                 ELSE RunNode(node, run.state, run.agent_raises, run.classifier_raises)
    IN  /\ node \notin {"begin", END, "done"}
        /\ stats' = IF node = "rule_engine" THEN evaluation.stats ELSE stats
        /\ logger' = IF NodeLogs(node, run.state)
                         THEN Emit(logger, run.message, node,
                                   NodeLogExtra(node, run.message, run.classifier_raises))
                      ELSE logger
        /\ inflight' = [inflight EXCEPT
                           ![r].state = [after EXCEPT !.visited = Append(@, node)],
                           ![r].node = Edge(node),
                           ![r].overlapped = @ \/ InProgress(inflight[3 - r])]
        /\ UNCHANGED <<tenantVars, urgencyVars, robs, ingestVars>>

\* process after the graph: the result, the completion log, clear_context
Finish(r) ==
    LET run == inflight[r]
    IN  /\ run.node = END
        /\ logger' = ClearContext(Emit(logger, run.message, "completed", NoExtra))
        /\ inflight' = [inflight EXCEPT
                           ![r] = [message |-> run.message,
                                   agent_raises |-> run.agent_raises,
                                   classifier_raises |-> run.classifier_raises,
                                   node |-> "done", state |-> run.state,
                                   overlapped |-> run.overlapped,
                                   result |-> MakeResult(run.message, run.state)]]
        /\ UNCHANGED <<tenantVars, urgencyVars, ruleVars, ingestVars>>

NextConcurrent ==
    \E r \in 1..2 :
        \/ Begin(r)
        \/ Stage(r)
        \/ Finish(r)

SpecConcurrent == InitConcurrent /\ [][NextConcurrent]_vars

-----------------------------------------------------------------------------
(* Ingestion: webhooks are handled, forwarded messages are processed *)

\* The gate returned a rejection: reasons, or no context (an exception of
\* the gate is not a rejection)
GateRejected(r) ==
    /\ r.gate # NoGate
    /\ ~r.gate.raised
    /\ (r.gate.errors # {} \/ r.gate.ctx = NoCtx)

\* The phone-owner lookup of the gate for this event under this fault
OwnersFor(st, event, fault) ==
    IF event.body # "valid" THEN {NoRecord}
    ELSE IF OwnerFault(fault) = "raise" THEN {OwnerRaises}
    ELSE GetOwnerByPhone(st, event.remoteJid, OwnerFault(fault))

\* One call of process_webhook, from the request to the response
HandleWebhook(event, keeps_extra, fault, sqs_ok) ==
    /\ received < MaxWebhooks
    /\ \E owner \in OwnersFor(store, event, fault) :
      \E r \in {ProcessWebhook(cache, store, event, keeps_extra, fault, owner, sqs_ok)} :
        LET n == received + 1
        IN  /\ received' = n
            /\ cache' = r.cache
            /\ hobs' = [request |-> n, status |-> r.status,
                        message |-> r.message, steps |-> r.steps,
                        gate_rejected |-> GateRejected(r),
                        errors |-> IF r.gate = NoGate THEN {} ELSE r.gate.errors,
                        normalized |-> r.normalized, forwarded |-> r.forwarded]
            /\ queue' = IF r.forwarded
                            THEN Append(queue, [request |-> n,
                                                payload |-> MakePayload(event.tenant_id, event.user_id),
                                                steps |-> r.steps,
                                                message |-> r.normalized])
                         ELSE queue
            /\ rejected' = IF GateRejected(r) THEN rejected \cup {n} ELSE rejected
            /\ UNCHANGED <<concurrentVars, store, obs, urgencyVars, ruleVars, pobs, evaluated>>

\* The consumer of the queue takes the oldest message and calls
\* MessageProcessingOrchestrator.process on it
Process(agent_raises, classifier_raises) ==
    /\ queue # <<>>
    /\ LET entry == Head(queue)
       IN  /\ queue' = Tail(queue)
           /\ stats' = EngineEvaluate(stats, entry.message).stats
           /\ robs' = [kind |-> "evaluate", message |-> entry.message,
                       match |-> EngineEvaluate(stats, entry.message).match,
                       ref |-> robs.ref]
           /\ pobs' = [request |-> entry.request, payload |-> entry.payload,
                       steps |-> entry.steps,
                       message |-> entry.message,
                       state |-> RunGraph(entry.message, agent_raises,
                                          classifier_raises),
                       agent_raises |-> agent_raises,
                       classifier_raises |-> classifier_raises,
                       result |-> ProcessMessage(entry.message, agent_raises,
                                                 classifier_raises)]
           /\ evaluated' = evaluated \cup {entry.request}
    /\ UNCHANGED <<concurrentVars, tenantVars, urgencyVars, received, hobs, rejected>>

\* The inputs that can make a difference for an event: the schema's
\* treatment of unknown fields when the payload has added identifiers, the
\* store faults and the outcome of the send when the gate is reached
ExtraChoices(event) ==
    IF event.body = "valid" /\ (HasKey(event.tenant_id) \/ HasKey(event.user_id))
    THEN BOOLEAN ELSE {FALSE}

ReachesGate(event) == event.body = "valid" /\ ShouldProcessEvent(event.event)

FaultChoices(event) == IF ReachesGate(event) THEN Faults ELSE {"ok"}

SendChoices(event) == IF ReachesGate(event) THEN BOOLEAN ELSE {TRUE}

InitIngest ==
    /\ TenantIdle
    /\ UrgencyIdle
    /\ RulesIdle
    /\ ConcurrentIdle
    /\ IngestIdle

NextIngest ==
    \/ \E s \in Statuses : StoreSetStatus("i1", s)
    \/ \E e \in WebhookEvents :
          \E x \in ExtraChoices(e), f \in FaultChoices(e), q \in SendChoices(e) :
              HandleWebhook(e, x, f, q)
    \/ \E a \in BOOLEAN, c \in BOOLEAN : Process(a, c)

SpecIngest == InitIngest /\ [][NextIngest]_vars

-----------------------------------------------------------------------------
(* Claims about the resolver and the gate *)

GateReasonsBeforePayload == {"instance_id", "status", "phone_ownership"}

\* C1: a gate call whose payload contains a user_id field (whatever its
\* value) returns no context, and when the instance, status and phone checks
\* pass its only reason is payload_forbidden_fields.
C1_UserIdFieldAlwaysRejected ==
    (/\ obs.kind = "gate"
     /\ obs.payload # NoPayload
     /\ HasKey(obs.payload.user_id))
    => /\ obs.ctx = NoCtx
       /\ (~obs.raised /\ obs.errors \cap GateReasonsBeforePayload = {})
            => obs.errors = {"payload_forbidden_fields"}

\* C2: a resolve call with a supplied credential whose hash differs from the
\* hash stored for the instance returns no context, also after earlier calls
\* populated the cache.
C2_CredentialMismatchRejected ==
    (/\ obs.kind = "resolve"
     /\ Truthy(obs.api_key)
     /\ obs.instance_id \in StoreInstances
     /\ HashApiKey(obs.api_key) # RecordOf(obs.instance_id).api_key_hash)
    => obs.ctx = NoCtx

\* C5: the resolver returns a context only for instances whose status is
\* active or suspended, the gate returns a context only for active ones, and
\* a suspended instance is rejected at the gate.
C5_StatusChecks ==
    /\ (obs.kind = "resolve" /\ obs.ctx # NoCtx)
         => obs.store_status \in {"active", "suspended"}
    /\ (obs.kind = "gate" /\ obs.ctx # NoCtx) => obs.store_status = "active"
    /\ (obs.kind = "gate" /\ obs.store_status = "suspended" /\ ~obs.raised)
         => (obs.ctx = NoCtx /\ obs.errors \subseteq {"instance_id", "status"})

\* C6: once the store has changed the status of an instance, the next
\* resolve of that instance does not return the previously cached context.
C6_StatusChangeInvalidatesCache ==
    (obs.kind = "resolve" /\ obs.stale) => ~obs.from_cache

\* C20: after any sequence of successful resolutions the cache of the
\* TenantResolver never holds more than the threshold of 1000 entries.
C20_CacheWithinThreshold == CacheSize(cache) <= CacheThreshold

\* The four identifying fields of a context are non-empty
ContextComplete(ctx) ==
    /\ ctx.tenant_id # ""
    /\ ctx.user_id # ""
    /\ ctx.instance_id # ""
    /\ ctx.phone_number # <<>>

\* C22: every TenantContext the resolver returns or holds in its cache has
\* tenant_id, user_id, instance_id and phone_number non-empty, so a store
\* record with one of them empty yields no context.
C22_ContextFieldsNonEmpty ==
    /\ (obs.kind = "resolve" /\ obs.ctx # NoCtx) => ContextComplete(obs.ctx)
    /\ \A i \in DOMAIN cache : cache[i] # NoCtx => ContextComplete(cache[i])

\* A context is that of instance k: verified from the store record of k
ContextOf(ctx, k) ==
    /\ k \in StoreInstances
    /\ ctx.instance_id = k
    /\ ctx.tenant_id = RecordOf(k).tenant_id
    /\ ctx.user_id = RecordOf(k).user_id

\* C24: under any interleaving of concurrent resolve_from_instance calls,
\* every cache entry under key k is a context verified from the store record
\* of instance k, and no call for k returns the context of another instance.
C24_RaceKeepsEntriesOwn ==
    /\ \A k \in DOMAIN cache : cache[k] # NoCtx => ContextOf(cache[k], k)
    /\ \A r \in 1..Len(inflight) :
          ("pc" \in DOMAIN inflight[r] /\ inflight[r].returned # NoCtx)
          => ContextOf(inflight[r].returned, inflight[r].instance_id)

\* Two overlapping calls for the same instance both missed the cache, both
\* queried the store and both cached and returned the context of the
\* instance (one lookup was redundant), while a call for it is cached too
C24_Witness ==
    /\ Len(inflight) = 2
    /\ "pc" \in DOMAIN inflight[1]
    /\ inflight[1].pc = "done"
    /\ inflight[2].pc = "done"
    /\ inflight[1].instance_id = "i2"
    /\ inflight[2].instance_id = "i2"
    /\ ~inflight[1].from_cache
    /\ ~inflight[2].from_cache
    /\ inflight[1].returned # NoCtx
    /\ inflight[2].returned # NoCtx
    /\ inflight[1].returned.status # inflight[2].returned.status
    /\ cache["i2"] = inflight[1].returned

\* A store lookup of the observed call failed
LookupFailed == \E k \in 1..Len(obs.lookups) : obs.lookups[k].outcome # "ok"

\* C21: validate_and_resolve never raises, and whenever one of its store
\* lookups (instance lookup or phone-owner lookup) fails it returns no
\* context and a non-empty reason map.
C21_GateNeverRaises ==
    obs.kind = "gate"
    => /\ ~obs.raised
       /\ LookupFailed => (obs.ctx = NoCtx /\ obs.errors # {})

\* C27: the gate applies its checks in the order instance lookup, credential,
\* status, phone ownership, payload and stops at the first that fails: the
\* result is the one the checks give when each is made against the store,
\* a rejection carries exactly one reason and is followed by no further
\* store lookup, and exactly one of context and reasons is non-empty
C27_FirstFailureOnly ==
    (obs.kind = "gate" /\ ~obs.raised)
    => /\ (obs.ctx = NoCtx) # (obs.errors = {})
       /\ obs.ctx = NoCtx => Cardinality(obs.errors) = 1
       /\ obs.errors \in {{"instance_id"}, {"status"}}
           => \A k \in 1..Len(obs.lookups) : obs.lookups[k].lookup # "owner"
       /\ (InstanceFault(obs.fault) = "ok"
            \/ (obs.lookups # <<>> /\ obs.lookups[1].lookup = "instance"))
           => obs.errors =
              ValidateAndResolve(Cleared(obs.before), store, obs.instance_id,
                                 obs.api_key, obs.sender_phone, obs.payload,
                                 obs.fault, obs.owner).errors

-----------------------------------------------------------------------------
(* Claims about the urgency agent *)

LogicCallMade == ucall.fn = "logic" /\ ucall.done

\* The threshold the claim gives for a historical bucket and a message
EffectiveThreshold(h, m) ==
    LET base == IF h # NoHistory /\ h.total_messages >= 5 THEN 65000 ELSE 75000
        first == IF h # NoHistory /\ h.total_messages = 0 THEN 85000 ELSE 0
        rate == IF h # NoHistory /\ h.total_messages >= 10
                   /\ (h.urgent_count + h.not_urgent_count = 0
                       \/ 10 * h.urgent_count < h.urgent_count + h.not_urgent_count)
                THEN 85000 ELSE 0
        group == IF m.is_group THEN 90000 ELSE 0
    IN  Max(Max(base, first), Max(rate, group))

C8_OnlyDowngrades ==
    LogicCallMade
    => /\ (~ucall.result.urgent => ucall.out = ucall.result)
       /\ (ucall.out.urgent => ucall.result.urgent)
       /\ ucall.out.confidence <= ucall.result.confidence

\* A non-urgent, low-confidence result for a first-contact group message
\* comes back as it went in
C8_Witness ==
    /\ LogicCallMade
    /\ ~ucall.result.urgent
    /\ ucall.result.confidence = 30000
    /\ ucall.history = MakeHistory(0, 0, 0)
    /\ ucall.message.is_group
    /\ ucall.out = ucall.result

\* The classifier step of run was reached and failed: the call raised, the
\* API is not configured, or the response is not a JSON object with a
\* boolean urgent and a confidence number within [0,1].
MalformedResponse(r) ==
    \/ r.shape # "object"
    \/ r.urgent.t # "bool"
    \/ r.confidence.t # "num"
    \/ (r.confidence.t = "num" /\ (r.confidence.v < 0 \/ r.confidence.v > ConfScale))

ClassifierStepFailed ==
    /\ ucall.fn = "run"
    /\ ucall.done
    /\ TextInfo(ucall.message.text).len >= 5
    /\ ~ucall.message.is_group
    /\ \/ ucall.llm.kind \in {"api_raises", "call_raises"}
       \/ ~ucall.api_key_set
       \/ (ucall.llm.kind = "response" /\ MalformedResponse(ucall.llm.response))

\* C9: on any failure of the classifier step (the call raises, the response
\* is unparsable or malformed, the API is not configured), run returns
\* urgent == false with confidence <= 0.5.
C9_FailureIsConservative ==
    ClassifierStepFailed
    => /\ ~ucall.out.urgent
       /\ ucall.out.confidence <= 50000

-----------------------------------------------------------------------------
(* Claims about the rule engine *)

\* C10: for every group message evaluate returns NOT_URGENT with confidence
\* >= 0.95 by the rule group_message, whatever the text matches.
C10_GroupNeverUrgent ==
    (robs.kind = "evaluate" /\ robs.message.is_group)
    => /\ robs.match.decision = "not_urgent"
       /\ robs.match.confidence >= 95000
       /\ robs.match.rule_name = "group_message"

\* A group message whose text matches security and financial evidence
C10_Witness ==
    /\ robs.kind = "evaluate"
    /\ robs.message.is_group
    /\ robs.message.text = "senha_banco"
    /\ TextInfo(robs.message.text).security # <<>>
    /\ TextInfo(robs.message.text).financial # <<>>
    /\ robs.match.decision = "not_urgent"

-----------------------------------------------------------------------------
(* Claims about the order of the rules *)

\* C11: evaluate returns the outcome of the first rule that holds in the
\* order group message, security match, financial match, marketing match
\* (at least 2 matches), empty or shorter than 10 characters, otherwise
\* UNDECIDED; security evidence wins over financial evidence, and security
\* or financial evidence together with marketing evidence gives URGENT.
C11_FirstRuleWins ==
    robs.kind = "evaluate" =>
        LET m == robs.message
            info == TextInfo(m.text)
            sec == info.security # <<>>
            fin == info.financial # <<>>
            mkt == Len(info.marketing) >= 2
            short == info.len < 10
            r == robs.match
        IN  /\ m.is_group => r.rule_name = "group_message"
            /\ (~m.is_group /\ sec)
                   => r.rule_name = "security_content" /\ r.decision = "urgent"
            /\ (~m.is_group /\ ~sec /\ fin)
                   => r.rule_name = "financial_content" /\ r.decision = "urgent"
            /\ (~m.is_group /\ ~sec /\ ~fin /\ mkt)
                   => r.rule_name = "marketing_content" /\ r.decision = "not_urgent"
            /\ (~m.is_group /\ ~sec /\ ~fin /\ ~mkt /\ short)
                   => r.rule_name = "empty_or_short" /\ r.decision = "not_urgent"
            /\ (~m.is_group /\ ~sec /\ ~fin /\ ~mkt /\ ~short)
                   => r.rule_name = "no_match" /\ r.decision = "undecided"

\* A direct message with security and financial evidence is decided by the
\* security rule
C11_Witness ==
    /\ robs.kind = "evaluate"
    /\ ~robs.message.is_group
    /\ TextInfo(robs.message.text).security # <<>>
    /\ TextInfo(robs.message.text).financial # <<>>
    /\ robs.match.rule_name = "security_content"
    /\ robs.match.decision = "urgent"

DecisionCounters == {"urgent_decisions", "not_urgent_decisions", "undecided"}

TriggeredTotal(st) ==
    st.rules_triggered["group_message"] + st.rules_triggered["security_content"]
    + st.rules_triggered["financial_content"] + st.rules_triggered["marketing_content"]
    + st.rules_triggered["empty_or_short"] + st.rules_triggered["no_match"]

CountersAgree(st) ==
    /\ st.total_evaluations
        = st.urgent_decisions + st.not_urgent_decisions + st.undecided
    /\ st.total_evaluations = TriggeredTotal(st)

\* The counters after one evaluate: the total, one decision counter and one
\* rule counter are one higher, every other counter is as it was
CountedOnce(before, after) ==
    /\ after.total_evaluations = before.total_evaluations + 1
    /\ \E d \in DecisionCounters :
          /\ after[d] = before[d] + 1
          /\ \A e \in DecisionCounters \ {d} : after[e] = before[e]
    /\ \E r \in RuleNames :
          /\ after.rules_triggered[r] = before.rules_triggered[r] + 1
          /\ \A q \in RuleNames \ {r} :
                after.rules_triggered[q] = before.rules_triggered[q]

\* C29: after any sequence of evaluate and reset_stats calls
\* total_evaluations equals the sum of the three decision counters and the
\* sum of the per-rule trigger counts; an evaluate raises the total, exactly
\* one decision counter and exactly one rule counter by one; reset_stats
\* leaves every counter at zero
C29_CountersConsistent ==
    [][/\ CountersAgree(stats)
       /\ CountersAgree(stats')
       /\ IF stats'.total_evaluations > stats.total_evaluations
              THEN CountedOnce(stats, stats')
              ELSE stats' = EmptyStats]_vars

\* Two evaluations counted under two decisions and two rules, the later one
\* on a security text
C29_Witness ==
    /\ robs.kind = "evaluate"
    /\ robs.match.rule_name = "security_content"
    /\ stats.total_evaluations = 2
    /\ stats.urgent_decisions = 1
    /\ stats.undecided = 1
    /\ stats.rules_triggered["security_content"] = 1
    /\ stats.rules_triggered["no_match"] = 1

-----------------------------------------------------------------------------
(* Claims about the classification agent *)

\* A call of ClassificationAgent.run has returned a result
ClassifyReturned == ucall.fn = "classify" /\ ucall.done /\ ~ucall.out.raised

\* What the classifier call of the observed run gave, and what the parser
\* made of it
ObservedCalled == ClassificationCallLlm(ucall.message, ucall.api_key_set, ucall.llm)

ObservedParsed == ParseClassificationResponse(ObservedCalled.result)

\* The classifier was called and its call raised or its response could not
\* be parsed
ClassifierFailed ==
    /\ ucall.fn = "classify" /\ ucall.done
    /\ ~TenantIsolationMissing(ucall.message)
    /\ (ObservedCalled.raised \/ ObservedParsed.raised)

\* C13: run never returns routing immediate when urgency_decision is
\* NOT_URGENT and urgency_confidence > 0.7, whatever routing the classifier
\* proposed and also on the fallback path after a classifier failure.
C13_NotUrgentNeverImmediate ==
    (ClassifyReturned /\ ucall.urgency_decision = "not_urgent"
        /\ ucall.urgency_confidence > 70000)
    => ucall.out.result.routing # "immediate"

\* The classifier proposed immediate for a NOT_URGENT message with
\* confidence just above 0.7 and the routing was turned into digest
C13_Witness ==
    /\ ClassifyReturned
    /\ ucall.urgency_decision = "not_urgent"
    /\ ucall.urgency_confidence = 70100
    /\ ~ObservedCalled.raised /\ ~ObservedParsed.raised
    /\ ObservedParsed.result.routing = "immediate"
    /\ ucall.out.result.routing = "digest"

\* C26: whenever urgency_decision is NOT_URGENT the routing run returns is
\* not immediate, for every urgency_confidence in [0,1] and every routing the
\* classifier proposed.
C26_NotUrgentNeverImmediateAtAll ==
    (ClassifyReturned /\ ucall.urgency_decision = "not_urgent")
    => ucall.out.result.routing # "immediate"

\* C26 as the code has it: a NOT_URGENT message is never routed immediate
\* when urgency_confidence is below 0.5 or above 0.7; from 0.5 to 0.7 the
\* routing the classifier proposed, immediate included, is returned.
C26_NotUrgentOutsideBand ==
    (ClassifyReturned /\ ucall.urgency_decision = "not_urgent")
    => /\ (ucall.urgency_confidence < 50000 \/ ucall.urgency_confidence > 70000)
           => ucall.out.result.routing # "immediate"
       /\ (/\ ucall.urgency_confidence >= 50000
           /\ ucall.urgency_confidence <= 70000
           /\ ~ObservedCalled.raised
           /\ ~ObservedParsed.raised)
          => ucall.out.result.routing = ObservedParsed.result.routing

\* The classifier proposed immediate for a NOT_URGENT message with
\* confidence just below 0.5 and the routing was turned into digest
C26_Witness ==
    /\ ClassifyReturned
    /\ ucall.urgency_decision = "not_urgent"
    /\ ucall.urgency_confidence = 49900
    /\ ~ObservedCalled.raised
    /\ ~ObservedParsed.raised
    /\ ObservedParsed.result.routing = "immediate"
    /\ ucall.out.result.routing = "digest"

WellFormed(result, summary_len) ==
    /\ result.category \in CATEGORIES
    /\ result.routing \in valid_routing
    /\ result.confidence >= 0
    /\ result.confidence <= ConfScale
    /\ summary_len <= SummaryCap

\* C28: the ClassificationResult of every path (the parsed response, the
\* fallbacks, the synchronous classification of the orchestrator) has one
\* of the nine categories, a routing among immediate, digest, spam, a
\* confidence within [0,1] and a summary of at most 150 characters,
\* whatever the lengths of the sender name and of the text
C28_ResultsWellFormed ==
    (ucall.fn = "summary" /\ ucall.done)
    => /\ WellFormed(ucall.out.agent, ucall.out.agent_summary)
       /\ WellFormed(ucall.out.sync, ucall.out.sync_summary)
       /\ WellFormed(ucall.out.node_fallback, ucall.out.node_fallback_summary)

\* C14: when urgency_decision is URGENT and urgency_confidence > 0.75 the
\* routing returned is immediate whatever the classifier proposed, and when a
\* proposal of digest or spam is overridden the classifier's reasoning is
\* kept with the override note appended to it.
C14_UrgentForcesImmediate ==
    (ClassifyReturned /\ ucall.urgency_decision = "urgent"
        /\ ucall.urgency_confidence > 75000)
    => /\ ucall.out.result.routing = "immediate"
       /\ (/\ ~ObservedCalled.raised /\ ~ObservedParsed.raised
           /\ ObservedParsed.result.routing \in {"digest", "spam"}
           /\ ObservedParsed.result.reasoning.t = "text")
          => ucall.out.result.reasoning =
                JText(ObservedParsed.result.reasoning.v
                      \o <<"alta_urgencia_detectada">>)

\* The classifier proposed spam for an URGENT message with confidence just
\* above 0.75
C14_Witness ==
    /\ ClassifyReturned
    /\ ucall.urgency_decision = "urgent"
    /\ ucall.urgency_confidence = 75100
    /\ ~ObservedCalled.raised /\ ~ObservedParsed.raised
    /\ ObservedParsed.result.routing = "spam"
    /\ ObservedParsed.result.reasoning = JText(<<"llm">>)
    /\ ucall.out.result.routing = "immediate"
    /\ ucall.out.result.reasoning = JText(<<"llm", "alta_urgencia_detectada">>)

\* The urgency decision the classification stage works with
StageUrgencyDecision(state) ==
    IF state.urgency_agent_decision # "none" THEN state.urgency_agent_decision
    ELSE state.rule_decision

\* The fallback: category "other", confidence 0.5, routing immediate exactly
\* when the urgency decision was URGENT, digest otherwise
IsFallback(result, urgency_decision) ==
    /\ result.category = "outros"
    /\ result.confidence = 50000
    /\ result.routing = IF urgency_decision = "urgent" THEN "immediate" ELSE "digest"

\* C15: on any classifier failure (the call raises or the response cannot be
\* parsed) the step does not raise and yields the fallback
\* ClassificationResult, both in ClassificationAgent.run and in the
\* classification stage of the orchestrator.
C15_FailureYieldsFallback ==
    /\ ClassifierFailed
          => /\ ~ucall.out.raised
             /\ IsFallback(ucall.out.result, ucall.urgency_decision)
    /\ (ucall.fn = "stage" /\ ucall.done /\ ucall.classifier_raises)
          => /\ ucall.out.classification_result # NoClassification
             /\ IsFallback(ucall.out.classification_result,
                           StageUrgencyDecision(ucall.state))
             /\ ucall.out.classification_routing
                    = ucall.out.classification_result.routing
             /\ ucall.out.classification_category = "outros"

\* The response of the classifier was not JSON for an URGENT message of low
\* confidence: the fallback routes it immediate
C15_Witness ==
    /\ ClassifierFailed
    /\ ~ObservedCalled.raised
    /\ ObservedParsed.raised
    /\ ucall.urgency_decision = "urgent"
    /\ ucall.urgency_confidence = 49900
    /\ ucall.out.result.routing = "immediate"
    /\ ucall.out.result.confidence = 50000

-----------------------------------------------------------------------------
(* Claims about the orchestrator *)

GraphNodes ==
    <<"rule_engine", "urgency_agent", "classification_agent", "route_decision",
      "audit_log">>

\* The steps of the audit trail, in order
TrailSteps(trail) == [k \in 1..Len(trail) |-> trail[k].step]

\* C17: every stage appends exactly one entry to the audit trail, so after a
\* completed run the trail holds exactly one entry per stage in stage order,
\* also when the escalation or the classification stage recovered from an
\* error.
C17_OneAuditEntryPerStage ==
    pobs.request # 0
    => /\ TrailSteps(pobs.result.audit_trail) = pobs.state.visited
       /\ pobs.state.visited = GraphNodes

\* The entries of the escalation stage in the trail
EscalationEntries(trail) ==
    {k \in 1..Len(trail) : trail[k].step = "urgency_agent"}

\* C18: when the rule engine decided URGENT or NOT_URGENT the escalation
\* stage does not invoke the classifier, sets the urgency decision and
\* confidence to the rule engine's and appends one audit entry marked
\* skipped; the ProcessingResult reports llm_used if and only if the rule
\* engine's decision was UNDECIDED.
C18_DecisiveRulePassesThrough ==
    pobs.request # 0
    => /\ pobs.state.rule_decision \in {"urgent", "not_urgent"}
            => /\ pobs.state.agent_calls = 0
               /\ pobs.state.urgency_agent_decision = pobs.state.rule_decision
               /\ pobs.state.urgency_agent_confidence = pobs.state.rule_confidence
               /\ Cardinality(EscalationEntries(pobs.result.audit_trail)) = 1
               /\ \A k \in EscalationEntries(pobs.result.audit_trail) :
                      pobs.result.audit_trail[k].decision = "skipped"
       /\ pobs.result.llm_used <=> pobs.state.rule_decision = "undecided"
       /\ pobs.state.rule_decision = robs.match.decision

\* A message decided URGENT by the security rule passed the escalation stage
C18_Witness ==
    /\ pobs.request # 0
    /\ pobs.state.rule_decision = "urgent"
    /\ robs.match.rule_name = "security_content"
    /\ pobs.state.agent_calls = 0
    /\ pobs.state.urgency_agent_confidence = 90000
    /\ ~pobs.result.llm_used
    /\ pobs.result.audit_trail[2].decision = "skipped"

\* C19: when the rule engine is decisive the final decision is fixed by the
\* rule outcome: URGENT (confidence at least 0.80) ends immediate,
\* NOT_URGENT ends digest.
C19_DecisiveRuleFixesRouting ==
    pobs.request # 0
    => /\ pobs.state.rule_decision = "urgent"
            => /\ pobs.state.rule_confidence >= 80000
               /\ pobs.result.decision = "immediate"
       /\ pobs.state.rule_decision = "not_urgent"
            => pobs.result.decision = "digest"

\* A message with security and financial evidence ends immediate
C19_Witness ==
    /\ pobs.request # 0
    /\ pobs.message.text = "senha_banco"
    /\ pobs.state.rule_decision = "urgent"
    /\ pobs.state.agent_calls = 0
    /\ ~pobs.classifier_raises
    /\ pobs.result.decision = "immediate"

\* C16: every pipeline run for one message visits the tenant gate, the rule
\* engine, the escalation, the classification, the route decision and the
\* audit finalisation exactly once each, in that order, with no stage
\* revisited.
C16_StagesOnceInOrder ==
    pobs.request # 0 => pobs.state.visited = <<"tenant_gate">> \o GraphNodes

\* What UrgencyAgent's conservative logic makes of the output the escalation
\* stage obtained for the message, for a sender without history
ConservativeOutcome(message) ==
    ApplyConservativeLogic(
        UrgencyResult(UrgencyAgentSync(message).decision = "urgent", LlmReason,
                      UrgencyAgentSync(message).confidence),
        NoHistory, message)

\* C25: when the rule engine is UNDECIDED the escalation stage never records
\* an URGENT urgency decision with a confidence below the threshold of 0.75,
\* and its urgency outcome is the one UrgencyAgent's conservative logic gives
\* for the same classifier output.
C25_EscalationIsConservative ==
    (/\ pobs.request # 0
     /\ pobs.state.rule_decision = "undecided"
     /\ ~pobs.agent_raises)
    => /\ pobs.state.urgency_agent_decision = "urgent"
           => pobs.state.urgency_agent_confidence >= CONFIDENCE_THRESHOLD_URGENT
       /\ (pobs.state.urgency_agent_decision = "urgent")
            = ConservativeOutcome(pobs.message).urgent

-----------------------------------------------------------------------------
(* Claims about concurrent processing *)

\* The result of the run's message when it is processed alone
Alone(run) == ProcessMessage(run.message, run.agent_raises, run.classifier_raises)

\* C23: when two messages are processed concurrently under any interleaving
\* of their stages, each run ends with the decision, rule_engine_decision,
\* rule_confidence and audit steps its message has when processed alone, and
\* its audit trail holds the entries of its own message only.
C23_RunsAreIndependent ==
    \A r \in 1..Len(inflight) :
        inflight[r].node = "done"
        => /\ inflight[r].result.decision = Alone(inflight[r]).decision
           /\ inflight[r].result.rule_engine_decision
                = Alone(inflight[r]).rule_engine_decision
           /\ inflight[r].result.rule_confidence = Alone(inflight[r]).rule_confidence
           /\ TrailSteps(inflight[r].result.audit_trail)
                = TrailSteps(Alone(inflight[r]).audit_trail)
           /\ inflight[r].result.audit_trail = Alone(inflight[r]).audit_trail
           /\ inflight[r].result.message_id = inflight[r].message.message_id

\* Two runs of different tenants whose stages overlapped have both ended,
\* one escalated to the agent and ending digest, one decided urgent by the
\* rule engine and ending immediate
C23_Witness ==
    /\ Len(inflight) = 2
    /\ inflight[1].node = "done"
    /\ inflight[2].node = "done"
    /\ inflight[1].overlapped
    /\ inflight[2].overlapped
    /\ inflight[1].message.tenant_id # inflight[2].message.tenant_id
    /\ inflight[1].result.rule_engine_decision = "undecided"
    /\ inflight[1].result.decision = "digest"
    /\ inflight[2].result.rule_engine_decision = "urgent"
    /\ inflight[2].result.decision = "immediate"
    /\ stats.total_evaluations = 2

\* The context of the message a run works on
OwnContext(message) ==
    [tenant_id |-> message.tenant_id, user_id |-> message.user_id,
     message_id |-> message.message_id]

\* C30: while two messages are processed concurrently by one orchestrator,
\* every log record emitted on behalf of a message carries that message's
\* tenant_id, user_id and message_id, and the context of a message in flight
\* is not removed when the other message finishes.
C30_LogContextIsOwn ==
    (/\ Len(inflight) = 2
     /\ inflight[1].message.tenant_id # inflight[2].message.tenant_id)
    => /\ logger.last # NoLogRecord
           => \E r \in 1..2 :
                 /\ inflight[r].message.message_id = logger.last.sender
                 /\ logger.last.fields = OwnContext(inflight[r].message)
       /\ (\E r \in 1..2 : InProgress(inflight[r]))
           => logger.context # NoLogContext

-----------------------------------------------------------------------------
(* Claims about ingestion *)

\* C3: when the tenant gate rejects a webhook, process_webhook answers 403
\* right after the gate: the webhook's message is not normalized, is never
\* in the processing queue and is never evaluated by the rule engine, and a
\* response is returned (no exception escapes).
C3_RejectionEndsPipeline ==
    /\ hobs.request # 0 /\ hobs.gate_rejected
         => /\ hobs.status = 403
            /\ hobs.steps = StepsToGate
            /\ hobs.normalized = NoMessage
            /\ ~hobs.forwarded
    /\ \A k \in 1..Len(queue) : queue[k].request \notin rejected
    /\ evaluated \cap rejected = {}

\* A webhook of a suspended instance was rejected at the gate for its status
\* after an earlier webhook had been forwarded and evaluated
C3_Witness ==
    /\ hobs.request = 2
    /\ hobs.gate_rejected
    /\ hobs.errors = {"status"}
    /\ hobs.status = 403
    /\ rejected = {2}
    /\ evaluated = {1}

\* The identity of a forwarded message is the identity of the store record of
\* the instance the webhook came through
IdentityFromStore(message) ==
    /\ message.instance_id \in DOMAIN store
    /\ message.tenant_id = store[message.instance_id].tenant_id
    /\ message.user_id = store[message.instance_id].user_id

\* C4: every forwarded NormalizedMessage, and the ProcessingResult produced
\* for it, carries the tenant_id and user_id of the store record of the
\* transport-level instance_id; webhooks that differ only in the identifiers
\* inside the payload end, when forwarded, with the same identity.
C4_IdentityFromInstanceOnly ==
    /\ \A k \in 1..Len(queue) : IdentityFromStore(queue[k].message)
    /\ (hobs.request # 0 /\ hobs.normalized # NoMessage)
         => IdentityFromStore(hobs.normalized)
    /\ pobs.request # 0
         => /\ IdentityFromStore(pobs.message)
            /\ pobs.result.tenant_id = store[pobs.message.instance_id].tenant_id
            /\ pobs.result.user_id = store[pobs.message.instance_id].user_id
    /\ \A j, k \in 1..Len(queue) :
          queue[j].message.instance_id = queue[k].message.instance_id
          => /\ queue[j].message.tenant_id = queue[k].message.tenant_id
             /\ queue[j].message.user_id = queue[k].message.user_id

\* Two webhooks of instance i1 that differ only in the identifiers inside
\* the payload were both forwarded with the store's identity, and the first
\* one's result has it too
C4_Witness ==
    /\ pobs.request = 1
    /\ pobs.message.instance_id = "i1"
    /\ pobs.payload = MakePayload("t1", "")
    /\ pobs.result.tenant_id = "t1"
    /\ pobs.result.user_id = "u1"
    /\ Len(queue) = 1
    /\ queue[1].payload = MakePayload(Absent, Absent)
    /\ queue[1].message = pobs.message

====
